---- MODULE Spec2Model ----
(***************************************************************************)
(* Session tokens of horshohei/speech: the token engine                    *)
(* (src/lib/sessionToken.ts), the credential gate and the schema helper    *)
(* (src/lib/auth/basic.ts) and the POST /api/session handler               *)
(* (src/unnamed/part_000).                                                 *)
(*                                                                         *)
(* Representation.                                                         *)
(*  - A JavaScript string is a sequence of one-character strings.          *)
(*  - A Buffer is a sequence of bytes 0..255; only ASCII text is used, so  *)
(*    utf8 encoding maps a character to its code.                          *)
(*  - A JavaScript number is an integer counting thousandths               *)
(*    (Scale == 1000 units per 1): 1.5 is 1500, 60 is 60000.  Dates are    *)
(*    milliseconds since the epoch; they stay below 2^31.                  *)
(*  - A JavaScript value is a record [t, n, s]: t is the type tag, n the   *)
(*    number, s the string.                                                *)
(*  - createHmac("sha256", key).update(data).digest() is modelled as a     *)
(*    collision-free keyed function: the digest is key, a zero byte, data. *)
(***************************************************************************)
EXTENDS Integers, Sequences, FiniteSets, TLC

VARIABLES
  made,          \* engine: the createSessionToken call, its arguments and result
  checked,       \* engine: the last verifySessionToken call, its arguments and result
  firstExpired,  \* engine: the earliest instant at which verifying made's token
                 \*   threw TokenExpiredError, -1 when it never did
  processEnv,    \* handler: process.env, set when the process starts
  clock,         \* handler: the time new Date() gives, in milliseconds
  minted,        \* handler: the body and the instant of the first 200 response
                 \*   of the Basic branch
  last,          \* handler: the last request, its instant and what POST did
  gate,          \* credential gate: the last call of parseBasicAuthHeader,
                 \*   verifyAppPassword or timingSafeCompare, and its result
  issued         \* issuing: the token strings createSessionToken has returned
                 \*   under the fixed secret, directly or inside the handler

engineVars == << made, checked, firstExpired >>
handlerVars == << processEnv, clock, minted, last >>
vars == << made, checked, firstExpired, processEnv, clock, minted, last, gate, issued >>

----------------------------------------------------------------------------
(* Characters and bytes *)

\* printable ASCII, code 32 .. 126, in code order (code 96 under a name: the
\* grave accent cannot be written in a string)
AsciiTable ==
  << " ", "!", "\"", "#", "$", "%", "&", "'", "(", ")", "*", "+", ",", "-", ".", "/",
     "0", "1", "2", "3", "4", "5", "6", "7", "8", "9", ":", ";", "<", "=", ">", "?",
     "@", "A", "B", "C", "D", "E", "F", "G", "H", "I", "J", "K", "L", "M", "N", "O",
     "P", "Q", "R", "S", "T", "U", "V", "W", "X", "Y", "Z", "[", "\\", "]", "^", "_",
     "<GRAVE>", "a", "b", "c", "d", "e", "f", "g", "h", "i", "j", "k", "l", "m", "n", "o",
     "p", "q", "r", "s", "t", "u", "v", "w", "x", "y", "z", "{", "|", "}", "~" >>

FirstPrintable == 32

\* the character a utf8 decoder gives for a byte that is no ASCII text
ReplacementChar == "<FFFD>"

\* the no-break space U+00A0: white space to String.prototype.trim, and no
\* white space to the HTTP header parser, so a header value can end with it
NoBreakSpace == "<NBSP>"

Chars ==
  { AsciiTable[i] : i \in 1..Len(AsciiTable) } \cup { "\t", ReplacementChar, NoBreakSpace }

CharCodeTable ==
  [ c \in Chars |->
      IF c = "\t" THEN 9
      ELSE IF c = ReplacementChar THEN 65533
      ELSE IF c = NoBreakSpace THEN 160
      ELSE (CHOOSE i \in 1..Len(AsciiTable) : AsciiTable[i] = c) + FirstPrintable - 1 ]

\* a function on 1..n as the tuple of its values (a sequence that is kept
\* as a rule would compute an element again each time it is read)
Tuple(f) == f \o << >>

\* String.prototype.charCodeAt for one character
charCodeAt(c) == CharCodeTable[c]

\* Buffer.from(str) / Buffer.from(str, "utf8"), of ASCII text (the only text
\* this program encodes)
Utf8Bytes(str) == Tuple([ i \in 1..Len(str) |-> charCodeAt(str[i]) ])

ByteChar(b) ==
  IF b = 9 THEN "\t"
  ELSE IF b >= FirstPrintable /\ b < FirstPrintable + Len(AsciiTable)
       THEN AsciiTable[b - FirstPrintable + 1]
       ELSE ReplacementChar

\* buffer.toString("utf8")
Utf8String(bytes) == Tuple([ i \in 1..Len(bytes) |-> ByteChar(bytes[i]) ])

LowerTable ==
  [ c \in Chars |->
      IF charCodeAt(c) >= 65 /\ charCodeAt(c) <= 90 THEN ByteChar(charCodeAt(c) + 32) ELSE c ]

\* String.prototype.toLowerCase
toLowerCase(str) == Tuple([ i \in 1..Len(str) |-> LowerTable[str[i]] ])

IsWhiteSpace(c) == c \in { " ", "\t", NoBreakSpace }

RECURSIVE TrimStart(_)
TrimStart(str) ==
  IF str # << >> /\ IsWhiteSpace(Head(str)) THEN TrimStart(Tail(str)) ELSE str

RECURSIVE TrimEnd(_)
TrimEnd(str) ==
  IF str # << >> /\ IsWhiteSpace(str[Len(str)])
  THEN TrimEnd(SubSeq(str, 1, Len(str) - 1))
  ELSE str

\* String.prototype.trim
trim(str) == TrimEnd(TrimStart(str))

\* String.prototype.startsWith
startsWith(str, prefix) ==
  Len(str) >= Len(prefix) /\ SubSeq(str, 1, Len(prefix)) = prefix

\* a variant of indexOf: the position of the last occurrence
lastIndexOf(str, c) ==
  LET at == { i \in 1..Len(str) : str[i] = c } IN
  IF at = { } THEN 0 ELSE CHOOSE i \in at : \A j \in at : i >= j

\* String.prototype.indexOf for one character, 1-based; 0 when absent
indexOf(str, c) ==
  LET at == { i \in 1..Len(str) : str[i] = c } IN
  IF at = { } THEN 0 ELSE CHOOSE i \in at : \A j \in at : i <= j

\* String.prototype.split on one character
RECURSIVE split(_, _)
split(str, sep) ==
  LET i == indexOf(str, sep) IN
  IF i = 0 THEN << str >>
  ELSE << SubSeq(str, 1, i - 1) >> \o split(SubSeq(str, i + 1, Len(str)), sep)

----------------------------------------------------------------------------
(* base64 and base64url, as node's Buffer encodes and decodes them *)

Base64UrlAlphabet ==
  << "A", "B", "C", "D", "E", "F", "G", "H", "I", "J", "K", "L", "M", "N", "O", "P",
     "Q", "R", "S", "T", "U", "V", "W", "X", "Y", "Z", "a", "b", "c", "d", "e", "f",
     "g", "h", "i", "j", "k", "l", "m", "n", "o", "p", "q", "r", "s", "t", "u", "v",
     "w", "x", "y", "z", "0", "1", "2", "3", "4", "5", "6", "7", "8", "9", "-", "_" >>

\* the value of a base64 character; -1 for a character of neither alphabet
Unbase64Table ==
  [ c \in Chars |->
      IF c = "+" THEN 62
      ELSE IF c = "/" THEN 63
      ELSE IF \E i \in 1..64 : Base64UrlAlphabet[i] = c
           THEN (CHOOSE i \in 1..64 : Base64UrlAlphabet[i] = c) - 1
           ELSE -1 ]

B64Char(v, url) ==
  IF ~url /\ v = 62 THEN "+"
  ELSE IF ~url /\ v = 63 THEN "/"
  ELSE Base64UrlAlphabet[v + 1]

\* the characters of the group of up to three bytes that starts at byte i
EncodeGroup(bytes, i, url) ==
  IF i = Len(bytes) THEN
    << B64Char(bytes[i] \div 4, url), B64Char((bytes[i] % 4) * 16, url) >>
      \o (IF url THEN << >> ELSE << "=", "=" >>)
  ELSE IF i + 1 = Len(bytes) THEN
    << B64Char(bytes[i] \div 4, url),
       B64Char((bytes[i] % 4) * 16 + (bytes[i + 1] \div 16), url),
       B64Char((bytes[i + 1] % 16) * 4, url) >>
      \o (IF url THEN << >> ELSE << "=" >>)
  ELSE
    << B64Char(bytes[i] \div 4, url),
       B64Char((bytes[i] % 4) * 16 + (bytes[i + 1] \div 16), url),
       B64Char((bytes[i + 1] % 16) * 4 + (bytes[i + 2] \div 64), url),
       B64Char(bytes[i + 2] % 64, url) >>

\* the characters of the groups lo..hi (group g starts at byte 3g - 2)
RECURSIVE EncodeGroups(_, _, _, _)
EncodeGroups(bytes, lo, hi, url) ==
  IF lo > hi THEN << >>
  ELSE IF lo = hi THEN EncodeGroup(bytes, 3 * lo - 2, url)
  ELSE EncodeGroups(bytes, lo, (lo + hi) \div 2, url)
         \o EncodeGroups(bytes, (lo + hi) \div 2 + 1, hi, url)

\* buffer.toString("base64url") (url, no padding) and buffer.toString("base64"):
\* three bytes make four characters; a last group of one or two bytes makes two
\* or three characters, and "=" fills the group when the alphabet is not url
Base64Encode(bytes, url) == EncodeGroups(bytes, 1, (Len(bytes) + 2) \div 3, url)

IsBase64Char(c) == Unbase64Table[c] >= 0

\* the legal characters of a base64 text, up to the first "=": node's decoder
\* skips every other character and stops at "="
LegalChars(str) ==
  LET stop == indexOf(str, "=") IN
  SelectSeq(IF stop = 0 THEN str ELSE SubSeq(str, 1, stop - 1), IsBase64Char)

\* the bytes of the group of up to four characters that starts at character i:
\* four characters make three bytes, a last group of two or three characters
\* makes one or two bytes, a last single character none
DecodeGroup(str, i) ==
  LET v(k) == Unbase64Table[str[k]] IN
  IF i = Len(str) THEN << >>
  ELSE IF i + 1 = Len(str) THEN << v(i) * 4 + (v(i + 1) \div 16) >>
  ELSE IF i + 2 = Len(str) THEN
    << v(i) * 4 + (v(i + 1) \div 16), (v(i + 1) % 16) * 16 + (v(i + 2) \div 4) >>
  ELSE
    << v(i) * 4 + (v(i + 1) \div 16), (v(i + 1) % 16) * 16 + (v(i + 2) \div 4),
       (v(i + 2) % 4) * 64 + v(i + 3) >>

RECURSIVE DecodeGroups(_, _, _)
DecodeGroups(str, lo, hi) ==
  IF lo > hi THEN << >>
  ELSE IF lo = hi THEN DecodeGroup(str, 4 * lo - 3)
  ELSE DecodeGroups(str, lo, (lo + hi) \div 2) \o DecodeGroups(str, (lo + hi) \div 2 + 1, hi)

DecodeLegal(str) == DecodeGroups(str, 1, (Len(str) + 3) \div 4)

\* Buffer.from(str, "base64") and Buffer.from(str, "base64url"): one lenient decoder
Base64Decode(str) == DecodeLegal(LegalChars(str))

----------------------------------------------------------------------------
(* JavaScript values *)

\* thousandths per unit of a modelled number; also the milliseconds of a second
\* (the "* 1000" and "/ 1000" of sessionToken.ts)
Scale == 1000

Undefined == [t |-> "undefined", n |-> 0, s |-> << >>]
Null == [t |-> "null", n |-> 0, s |-> << >>]
NaN == [t |-> "NaN", n |-> 0, s |-> << >>]
Num(n) == [t |-> "number", n |-> n, s |-> << >>]
Whole(i) == Num(i * Scale)
Str(s) == [t |-> "string", n |-> 0, s |-> s]
Bool(b) == [t |-> "boolean", n |-> IF b THEN 1 ELSE 0, s |-> << >>]
EmptyArray == [t |-> "array", n |-> 0, s |-> << >>]

\* ToBoolean: what "!v" and "if (v)" test
Truthy(v) ==
  CASE v.t = "undefined" -> FALSE
    [] v.t = "null" -> FALSE
    [] v.t = "NaN" -> FALSE
    [] v.t = "number" -> v.n # 0
    [] v.t = "string" -> v.s # << >>
    [] v.t = "boolean" -> v.n = 1
    [] OTHER -> TRUE

IsDigit(c) == charCodeAt(c) >= 48 /\ charCodeAt(c) <= 57
DigitValue(c) == charCodeAt(c) - 48

RECURSIVE NatDigits(_)
NatDigits(i) ==
  IF i < 10 THEN << ByteChar(48 + i) >>
  ELSE NatDigits(i \div 10) \o << ByteChar(48 + (i % 10)) >>

\* the digits of a fraction given in thousandths, trailing zeros dropped
FractionDigits(f) ==
  IF f % 100 = 0 THEN NatDigits(f \div 100)
  ELSE IF f % 10 = 0 THEN << ByteChar(48 + (f \div 100)), ByteChar(48 + ((f \div 10) % 10)) >>
  ELSE << ByteChar(48 + (f \div 100)), ByteChar(48 + ((f \div 10) % 10)), ByteChar(48 + (f % 10)) >>

\* Number::toString of a finite number
NumberToString(n) ==
  LET a == IF n < 0 THEN -n ELSE n IN
  (IF n < 0 THEN << "-" >> ELSE << >>)
    \o NatDigits(a \div Scale)
    \o (IF a % Scale = 0 THEN << >> ELSE << "." >> \o FractionDigits(a % Scale))

\* digits to a natural number
RECURSIVE DigitsValue(_, _)
DigitsValue(str, acc) ==
  IF str = << >> THEN acc ELSE DigitsValue(Tail(str), acc * 10 + DigitValue(Head(str)))

\* the thousandths a fraction's digits stand for (digits past the third dropped)
FractionValue(str) ==
  LET d(k) == IF k <= Len(str) THEN DigitValue(str[k]) ELSE 0 IN
  d(1) * 100 + d(2) * 10 + d(3)

\* the end of the run of digits that starts at i (i itself when there is none)
RECURSIVE DigitsEnd(_, _)
DigitsEnd(str, i) ==
  IF i <= Len(str) /\ IsDigit(str[i]) THEN DigitsEnd(str, i + 1) ELSE i

----------------------------------------------------------------------------
(* JSON.stringify and JSON.parse, for the texts of this program: a scalar, or *)
(* an object whose members are scalars                                      *)

RECURSIVE QuoteChars(_)
QuoteChars(str) ==
  IF str = << >> THEN << >>
  ELSE (CASE Head(str) = "\"" -> << "\\", "\"" >>
          [] Head(str) = "\\" -> << "\\", "\\" >>
          [] Head(str) = "\t" -> << "\\", "t" >>
          [] OTHER -> << Head(str) >>) \o QuoteChars(Tail(str))

\* JSON.stringify of a string
QuoteJSONString(str) == << "\"" >> \o QuoteChars(str) \o << "\"" >>

\* JSON.stringify of a member's value
StringifyValue(v) ==
  CASE v.t = "string" -> QuoteJSONString(v.s)
    [] v.t = "array" -> << "[", "]" >>
    [] v.t = "number" -> NumberToString(v.n)
    [] v.t = "boolean" -> IF v.n = 1 THEN << "t", "r", "u", "e" >> ELSE << "f", "a", "l", "s", "e" >>
    [] OTHER -> << "n", "u", "l", "l" >>

\* the member names this program writes or reads: a token payload's, and a
\* request body's ttlSeconds
MemberKeys == << "jti", "scope", "iat", "exp", "ttlSeconds" >>

KeyChars(k) ==
  CASE k = "jti" -> << "j", "t", "i" >>
    [] k = "scope" -> << "s", "c", "o", "p", "e" >>
    [] k = "iat" -> << "i", "a", "t" >>
    [] k = "exp" -> << "e", "x", "p" >>
    [] k = "ttlSeconds" -> << "t", "t", "l", "S", "e", "c", "o", "n", "d", "s" >>

RECURSIVE StringifyMembers(_, _, _)
StringifyMembers(obj, k, first) ==
  IF k > Len(MemberKeys) THEN << >>
  ELSE IF obj[MemberKeys[k]].t = "undefined" THEN StringifyMembers(obj, k + 1, first)
  ELSE (IF first THEN << >> ELSE << "," >>)
         \o QuoteJSONString(KeyChars(MemberKeys[k])) \o << ":" >>
         \o StringifyValue(obj[MemberKeys[k]])
         \o StringifyMembers(obj, k + 1, FALSE)

\* JSON.stringify(payload): the members in insertion order jti, scope, iat, exp
\* (a member that is undefined is left out)
JSONStringify(obj) == << "{" >> \o StringifyMembers(obj, 1, TRUE) \o << "}" >>

NoMembers == [ k \in { MemberKeys[i] : i \in 1..Len(MemberKeys) } |-> Undefined ]

\* what JSON.parse gives: ok FALSE is a SyntaxError; kind is the value's kind;
\* an object's members of the names above are in m (Undefined when absent),
\* a scalar is in v; "[]" is the one array
ParseError == [ok |-> FALSE, kind |-> "error", v |-> Undefined, m |-> NoMembers]
ParsedScalar(v) == [ok |-> TRUE, kind |-> v.t, v |-> v, m |-> NoMembers]
ParsedObject(m) == [ok |-> TRUE, kind |-> "object", v |-> Undefined, m |-> m]

IsJSONSpace(c) == c \in { " ", "\t" }

RECURSIVE SkipSpace(_, _)
SkipSpace(str, i) ==
  IF i <= Len(str) /\ IsJSONSpace(str[i]) THEN SkipSpace(str, i + 1) ELSE i

\* the characters of the string literal whose opening quote is before i:
\* [ok, s, i], i the place after the closing quote
RECURSIVE ReadString(_, _, _)
ReadString(str, i, acc) ==
  IF i > Len(str) THEN [ok |-> FALSE, s |-> << >>, i |-> i]
  ELSE IF str[i] = "\"" THEN [ok |-> TRUE, s |-> acc, i |-> i + 1]
  ELSE IF str[i] = "\t" THEN [ok |-> FALSE, s |-> << >>, i |-> i]
  ELSE IF str[i] = "\\" THEN
    IF i + 1 > Len(str) THEN [ok |-> FALSE, s |-> << >>, i |-> i]
    ELSE IF str[i + 1] \in { "\"", "\\", "/" } THEN ReadString(str, i + 2, Append(acc, str[i + 1]))
    ELSE IF str[i + 1] = "t" THEN ReadString(str, i + 2, Append(acc, "\t"))
    ELSE [ok |-> FALSE, s |-> << >>, i |-> i]
  ELSE ReadString(str, i + 1, Append(acc, str[i]))

HasAt(str, i, word) ==
  i + Len(word) - 1 <= Len(str) /\ SubSeq(str, i, i + Len(word) - 1) = word

\* a number literal at i: -? digits (. digits)?
ReadNumber(str, i) ==
  LET neg == i <= Len(str) /\ str[i] = "-"
      a == IF neg THEN i + 1 ELSE i
      b == DigitsEnd(str, a)
      frac == b <= Len(str) /\ str[b] = "."
      c == IF frac THEN DigitsEnd(str, b + 1) ELSE b
      whole == DigitsValue(SubSeq(str, a, b - 1), 0)
      part == IF frac THEN FractionValue(SubSeq(str, b + 1, c - 1)) ELSE 0
      leadingZero == b - a > 1 /\ str[a] = "0"
  IN IF b = a \/ leadingZero \/ (frac /\ c = b + 1)
     THEN [ok |-> FALSE, v |-> Undefined, i |-> i]
     ELSE [ok |-> TRUE,
           v |-> Num((IF neg THEN -1 ELSE 1) * (whole * Scale + part)),
           i |-> c]

\* a scalar at i: [ok, v, i]
ReadScalar(str, i) ==
  IF i > Len(str) THEN [ok |-> FALSE, v |-> Undefined, i |-> i]
  ELSE IF str[i] = "\"" THEN
    LET r == ReadString(str, i + 1, << >>) IN [ok |-> r.ok, v |-> Str(r.s), i |-> r.i]
  ELSE IF HasAt(str, i, << "[", "]" >>) THEN [ok |-> TRUE, v |-> EmptyArray, i |-> i + 2]
  ELSE IF HasAt(str, i, << "n", "u", "l", "l" >>) THEN [ok |-> TRUE, v |-> Null, i |-> i + 4]
  ELSE IF HasAt(str, i, << "t", "r", "u", "e" >>) THEN [ok |-> TRUE, v |-> Bool(TRUE), i |-> i + 4]
  ELSE IF HasAt(str, i, << "f", "a", "l", "s", "e" >>) THEN [ok |-> TRUE, v |-> Bool(FALSE), i |-> i + 5]
  ELSE ReadNumber(str, i)

\* the member named key set in m; a member this program never reads is dropped
SetMember(m, key, v) ==
  IF \E k \in DOMAIN m : KeyChars(k) = key
  THEN [m EXCEPT ![CHOOSE k \in DOMAIN m : KeyChars(k) = key] = v]
  ELSE m

\* the members of an object from i (after "{" or ","): [ok, m, i], i after "}"
RECURSIVE ReadMembers(_, _, _)
ReadMembers(str, i, m) ==
  LET a == SkipSpace(str, i) IN
  IF a > Len(str) \/ str[a] # "\"" THEN [ok |-> FALSE, m |-> m, i |-> a]
  ELSE
    LET key == ReadString(str, a + 1, << >>)
        b == SkipSpace(str, key.i)
    IN IF ~key.ok \/ b > Len(str) \/ str[b] # ":" THEN [ok |-> FALSE, m |-> m, i |-> b]
       ELSE
         LET val == ReadScalar(str, SkipSpace(str, b + 1))
             c == SkipSpace(str, val.i)
         IN IF ~val.ok \/ c > Len(str) THEN [ok |-> FALSE, m |-> m, i |-> c]
            ELSE IF str[c] = "}" THEN [ok |-> TRUE, m |-> SetMember(m, key.s, val.v), i |-> c + 1]
            ELSE IF str[c] = "," THEN ReadMembers(str, c + 1, SetMember(m, key.s, val.v))
            ELSE [ok |-> FALSE, m |-> m, i |-> c]

\* JSON.parse(text)
JSONParse(str) ==
  LET a == SkipSpace(str, 1) IN
  IF a > Len(str) THEN ParseError
  ELSE IF str[a] = "{" THEN
    LET b == SkipSpace(str, a + 1)
        r == IF b <= Len(str) /\ str[b] = "}"
             THEN [ok |-> TRUE, m |-> NoMembers, i |-> b + 1]
             ELSE ReadMembers(str, a + 1, NoMembers)
    IN IF r.ok /\ SkipSpace(str, r.i) > Len(str) THEN ParsedObject(r.m) ELSE ParseError
  ELSE
    LET r == ReadScalar(str, a) IN
    IF r.ok /\ SkipSpace(str, r.i) > Len(str) THEN ParsedScalar(r.v) ELSE ParseError

----------------------------------------------------------------------------
(* Date *)

MsPerDay == 86400000

Pad2(i) == << ByteChar(48 + (i \div 10)), ByteChar(48 + (i % 10)) >>
Pad3(i) == << ByteChar(48 + (i \div 100)) >> \o Pad2(i % 100)
Pad4(i) == Pad2(i \div 100) \o Pad2(i % 100)

\* the civil date [y, m, d] of a day number counted from 1970-01-01
CivilFromDays(days) ==
  LET z == days + 719468
      era == z \div 146097
      doe == z - era * 146097
      yoe == (doe - (doe \div 1460) + (doe \div 36524) - (doe \div 146096)) \div 365
      doy == doe - (365 * yoe + (yoe \div 4) - (yoe \div 100))
      mp == (5 * doy + 2) \div 153
      m == IF mp < 10 THEN mp + 3 ELSE mp - 9
  IN [y |-> yoe + era * 400 + (IF m <= 2 THEN 1 ELSE 0),
      m |-> m,
      d |-> doy - ((153 * mp + 2) \div 5) + 1]

\* new Date(ms).toISOString(), for a valid time value of the years 0000..9999
toISOString(ms) ==
  LET date == CivilFromDays(ms \div MsPerDay)
      t == ms % MsPerDay
  IN Pad4(date.y) \o << "-" >> \o Pad2(date.m) \o << "-" >> \o Pad2(date.d) \o << "T" >>
       \o Pad2(t \div 3600000) \o << ":" >> \o Pad2((t \div 60000) % 60) \o << ":" >>
       \o Pad2((t \div 1000) % 60) \o << "." >> \o Pad3(t % 1000) \o << "Z" >>

\* the day number, counted from 1970-01-01, of a civil date
DaysFromCivil(y, m, d) ==
  LET yy == IF m <= 2 THEN y - 1 ELSE y
      era == yy \div 400
      yoe == yy - era * 400
      doy == ((153 * (IF m > 2 THEN m - 3 ELSE m + 9) + 2) \div 5) + d - 1
      doe == yoe * 365 + (yoe \div 4) - (yoe \div 100) + doy
  IN era * 146097 + doe - 719468

\* Date.parse(str) for the format toISOString writes, YYYY-MM-DDTHH:mm:ss.sssZ:
\* [ok, ms]; ok FALSE stands for NaN (no other format reaches Date.parse here)
DateParse(str) ==
  LET digits == { 1, 2, 3, 4, 6, 7, 9, 10, 12, 13, 15, 16, 18, 19, 21, 22, 23 }
      shaped == /\ Len(str) = 24
                /\ \A i \in digits : IsDigit(str[i])
                /\ << str[5], str[8], str[11], str[14], str[17], str[20], str[24] >>
                     = << "-", "-", "T", ":", ":", ".", "Z" >>
      num(a, b) == DigitsValue(SubSeq(str, a, b), 0)
  IN IF ~shaped THEN [ok |-> FALSE, ms |-> 0]
     ELSE IF num(6, 7) \notin 1..12 \/ num(9, 10) \notin 1..31 \/ num(12, 13) > 23
             \/ num(15, 16) > 59 \/ num(18, 19) > 59
     THEN [ok |-> FALSE, ms |-> 0]
     ELSE [ok |-> TRUE,
           ms |-> DaysFromCivil(num(1, 4), num(6, 7), num(9, 10)) * MsPerDay
                    + num(12, 13) * 3600000 + num(15, 16) * 60000
                    + num(18, 19) * 1000 + num(21, 23)]

----------------------------------------------------------------------------
(* src/lib/sessionToken.ts *)

DEFAULT_TTL_SECONDS == 60
MAX_TTL_SECONDS == 300

\* what a call gives: status "ok" and the value returned (createSessionToken:
\* token, scope, expiresAt; verifySessionToken: payload), or the name and the
\* message of the error thrown
Returned(r) == r.status = "ok"
Throw(name, message) ==
  [status |-> name, message |-> message, token |-> << >>, scope |-> Undefined,
   expiresAt |-> << >>, payload |-> NoMembers]
TokenInvalidError(message) == Throw("TokenInvalidError", message)
TokenExpiredError == Throw("TokenExpiredError", "Session token expired")

\* a variant of getSigningSecret that reads the app password first
PasswordFirst(env) ==
  IF env.APP_PASSWORD.t # "undefined" THEN env.APP_PASSWORD.s
  ELSE IF env.REALTIME_SESSION_SECRET.t # "undefined" THEN env.REALTIME_SESSION_SECRET.s
  ELSE << "d", "e", "v" >>

\* process.env: each of the two variables is Undefined or a string
getSigningSecret(env) ==
  IF env.REALTIME_SESSION_SECRET.t # "undefined" THEN env.REALTIME_SESSION_SECRET.s
  ELSE IF env.APP_PASSWORD.t # "undefined" THEN env.APP_PASSWORD.s
  ELSE << "d", "e", "v", "e", "l", "o", "p", "m", "e", "n", "t", "-",
          "s", "e", "s", "s", "i", "o", "n", "-", "s", "e", "c", "r", "e", "t" >>

\* the default of the option secret: secret = getSigningSecret(); secret is a
\* string, or Undefined when the caller passed none
SecretOrDefault(secret, env) ==
  IF secret.t = "undefined" THEN getSigningSecret(env) ELSE secret.s

\* a variant of the digest that does not depend on the key
KeylessDigest(key, data) == Utf8Bytes(data)

\* createHmac("sha256", key).update(data).digest(): a keyed function without
\* collisions (the key holds no zero byte)
HmacSha256(key, data) == Utf8Bytes(key) \o << 0 >> \o Utf8Bytes(data)

\* JSON.stringify({ alg: "HS256", typ: "JWT" })
HeaderJSON ==
  << "{", "\"", "a", "l", "g", "\"", ":", "\"", "H", "S", "2", "5", "6", "\"", ",",
     "\"", "t", "y", "p", "\"", ":", "\"", "J", "W", "T", "\"", "}" >>

signPayload(payload, secret) ==
  LET encodedHeader == Base64Encode(Utf8Bytes(HeaderJSON), TRUE)
      encodedPayload == Base64Encode(Utf8Bytes(JSONStringify(payload)), TRUE)
      unsignedToken == encodedHeader \o << "." >> \o encodedPayload
      signature == Base64Encode(HmacSha256(secret, unsignedToken), TRUE)
  IN unsignedToken \o << "." >> \o signature

\* variants of safeEqual: one that accepts any two buffers, one that compares
\* the lengths only
AnyEqual(a, b) == TRUE
SameLength(a, b) == Len(a) = Len(b)

\* timingSafeEqual(a, b) is the equality of two buffers of one length
safeEqual(a, b) ==
  IF Len(a) # Len(b) THEN FALSE
  ELSE a = b

\* variants of Math.min: no ceiling (the first argument), and the ceiling always
FirstOf(a, b) == a
SecondOf(a, b) == b

\* Math.min
Min(a, b) == IF a <= b THEN a ELSE b

\* createSessionToken({ scope, ttlSeconds, now, secret }); scope is a string
\* or Undefined, ttlSeconds a number or Undefined (the default applies), now a
\* time in milliseconds, secret a string; jti is what randomUUID() returns
createSessionToken(scope, ttl, now, secret, jti) ==
  LET ttlSeconds == IF ttl.t = "undefined" THEN Whole(DEFAULT_TTL_SECONDS) ELSE ttl IN
  IF ~Truthy(scope) \/ trim(scope.s) = << >> THEN TokenInvalidError("Scope is required")
  ELSE IF ttlSeconds.n <= 0 THEN TokenInvalidError("TTL must be greater than 0")
  ELSE
    LET boundedTtl == Min(ttlSeconds.n, MAX_TTL_SECONDS * Scale)
        issuedAtSeconds == (now \div 1000) * Scale
        exp == issuedAtSeconds + boundedTtl
        payload == [NoMembers EXCEPT !.jti = Str(jti), !.scope = scope,
                                     !.iat = Num(issuedAtSeconds), !.exp = Num(exp)]
    IN [status |-> "ok", message |-> "", token |-> signPayload(payload, secret),
        scope |-> scope, expiresAt |-> toISOString((exp * 1000) \div Scale),
        payload |-> NoMembers]

\* a variant of ToNumber that gives a number a second later
LaterNumber(v) == IF v.t = "number" THEN Num(v.n + Scale) ELSE NaN

\* ToNumber, for the values a parsed payload holds
ToNumber(v) ==
  CASE v.t = "number" -> v
    [] v.t = "boolean" -> Whole(v.n)
    [] v.t = "null" -> Whole(0)
    [] v.t = "array" -> Whole(0)
    [] v.t = "string" ->
         LET str == trim(v.s)
             r == ReadNumber(str, 1)
         IN IF str = << >> THEN Whole(0)
            ELSE IF r.ok /\ r.i > Len(str) THEN r.v
            ELSE NaN
    [] OTHER -> NaN

\* a variant of isSessionTokenExpired with the boundary instant still valid
ExpiredAfter(payload, now) ==
  LET exp == ToNumber(payload.exp) IN
  exp.t = "number" /\ (exp.n * 1000) \div Scale < now

\* isSessionTokenExpired(payload, now): payload.exp * 1000 <= now.getTime()
isSessionTokenExpired(payload, now) ==
  LET exp == ToNumber(payload.exp) IN
  exp.t = "number" /\ (exp.n * 1000) \div Scale <= now

\* requiredScope: absent, one string, or an array of strings
NoScope == [kind |-> "undefined", s |-> << >>, a |-> { }]
OneScope(s) == [kind |-> "string", s |-> s, a |-> { }]
ScopeArray(a) == [kind |-> "array", s |-> << >>, a |-> a]

\* assertValidPayload(payload, now, requiredScope): "ok" or the error thrown
\* (typeof gives "object" for an array too, and an array has no members)
assertValidPayload(parsed, now, requiredScope) ==
  IF parsed.kind \notin { "object", "array" } THEN TokenInvalidError("Token payload missing")
  ELSE IF ~Truthy(parsed.m.exp) \/ ~Truthy(parsed.m.scope)
  THEN TokenInvalidError("Token payload missing fields")
  ELSE IF isSessionTokenExpired(parsed.m, now) THEN TokenExpiredError
  ELSE IF requiredScope.kind = "array" \/ (requiredScope.kind = "string" /\ requiredScope.s # << >>)
  THEN
    LET scopes == IF requiredScope.kind = "array" THEN requiredScope.a ELSE { requiredScope.s } IN
    IF parsed.m.scope.t = "string" /\ parsed.m.scope.s \in scopes
    THEN [Throw("ok", "") EXCEPT !.payload = parsed.m]
    ELSE TokenInvalidError("Token scope is not permitted")
  ELSE [Throw("ok", "") EXCEPT !.payload = parsed.m]

\* verifySessionToken(token, { now, requiredScope, secret })
verifySessionToken(token, now, requiredScope, secret) ==
  IF token = << >> THEN TokenInvalidError("Token is required")
  ELSE
    LET segments == split(token, ".") IN
    IF Len(segments) # 3 THEN TokenInvalidError("Token format is invalid")
    ELSE
      LET encodedHeader == segments[1]
          encodedPayload == segments[2]
          receivedSignature == segments[3]
          unsignedToken == encodedHeader \o << "." >> \o encodedPayload
          expectedSignature == Base64Encode(HmacSha256(secret, unsignedToken), TRUE)
      IN IF ~safeEqual(Utf8Bytes(receivedSignature), Utf8Bytes(expectedSignature))
         THEN TokenInvalidError("Token signature mismatch")
         ELSE
           LET payloadJson == Utf8String(Base64Decode(encodedPayload))
               parsed == JSONParse(payloadJson)
           IN IF ~parsed.ok THEN TokenInvalidError("Token payload could not be parsed")
              ELSE assertValidPayload(parsed, now, requiredScope)

----------------------------------------------------------------------------
(* src/lib/auth/basic.ts: the credential gate *)

NoCredentials == [ok |-> FALSE, username |-> << >>, password |-> << >>]

\* parseBasicAuthHeader(header), header a string or null: [ok, username,
\* password], ok FALSE for null
parseBasicAuthHeader(header) ==
  IF ~Truthy(header) THEN NoCredentials
  ELSE
    LET parts == split(header.s, " ")
        scheme == parts[1]
        value == IF Len(parts) >= 2 THEN parts[2] ELSE << >>
    IN IF scheme = << >> \/ value = << >>
          \/ toLowerCase(scheme) # << "b", "a", "s", "i", "c" >>
       THEN NoCredentials
       ELSE
         LET decoded == Utf8String(Base64Decode(value))
             separatorIndex == indexOf(decoded, ":")
         IN IF separatorIndex = 0 THEN NoCredentials
            ELSE [ok |-> TRUE,
                  username |-> SubSeq(decoded, 1, separatorIndex - 1),
                  password |-> SubSeq(decoded, separatorIndex + 1, Len(decoded))]

\* a ^ b and a | b of two natural numbers
RECURSIVE BitXor(_, _)
BitXor(a, b) ==
  IF a = 0 /\ b = 0 THEN 0
  ELSE ((a + b) % 2) + 2 * BitXor(a \div 2, b \div 2)

RECURSIVE BitOr(_, _)
BitOr(a, b) ==
  IF a = 0 /\ b = 0 THEN 0
  ELSE (IF a % 2 = 1 \/ b % 2 = 1 THEN 1 ELSE 0) + 2 * BitOr(a \div 2, b \div 2)

\* the loop of timingSafeCompare from position i on: [result, visited]
RECURSIVE CompareFrom(_, _, _, _)
CompareFrom(a, b, i, result) ==
  IF i > Len(a) THEN [result |-> result, visited |-> i - 1]
  ELSE CompareFrom(a, b, i + 1, BitOr(result, BitXor(charCodeAt(a[i]), charCodeAt(b[i]))))

\* a variant of timingSafeCompare without the test of the lengths: it reads the
\* positions of a only
PrefixCompare(a, b) ==
  [equal |-> Len(a) <= Len(b) /\ SubSeq(b, 1, Len(a)) = a, visited |-> Len(a)]

\* timingSafeCompare(a, b): [equal, visited], visited the number of positions
\* the loop has read
timingSafeCompare(a, b) ==
  IF Len(a) # Len(b) THEN [equal |-> FALSE, visited |-> 0]
  ELSE
    LET r == CompareFrom(a, b, 1, 0) IN
    [equal |-> r.result = 0, visited |-> r.visited]

\* a variant of verifyAppPassword that accepts every password
AnyPassword(password, env) == TRUE

\* password ?? ""
OrEmpty(password) == IF password.t \in { "undefined", "null" } THEN << >> ELSE password.s

\* verifyAppPassword(password), password a string, null or undefined,
\* process.env being env
verifyAppPassword(password, env) ==
  IF ~Truthy(env.APP_PASSWORD) THEN FALSE
  ELSE timingSafeCompare(OrEmpty(password), env.APP_PASSWORD.s).equal

----------------------------------------------------------------------------
(* src/lib/auth/basic.ts: the schema helper imported as "@/lib/zod" *)

\* what _parse gives: the parsed data, or the issue of the ZodError thrown
Parsed(data) == [ok |-> TRUE, data |-> data, issues |-> << >>]
ZodError(path, message) ==
  [ok |-> FALSE, data |-> Undefined, issues |-> << [path |-> path, message |-> message] >>]

\* a StringSchema: minLength (-1: none), defaultValue (Undefined: none),
\* refinement ("": none, or the message of the one refinement, which is the
\* Date.parse test of sessionResponseSchema)
StringSchema(minLength, defaultValue, refinement) ==
  [minLength |-> minLength, defaultValue |-> defaultValue, refinement |-> refinement]

StringSchemaParse(schema, data, path) ==
  IF data.t = "undefined" THEN
    IF schema.defaultValue.t # "undefined" THEN Parsed(schema.defaultValue)
    ELSE ZodError(path, "Required")
  ELSE IF data.t # "string" THEN ZodError(path, "Expected string")
  ELSE IF schema.minLength # -1 /\ Len(data.s) < schema.minLength
  THEN ZodError(path, "Expected at least " \o ToString(schema.minLength) \o " characters")
  ELSE IF schema.refinement # "" /\ ~DateParse(data.s).ok
  THEN ZodError(path, schema.refinement)
  ELSE Parsed(data)

\* a NumberSchema: requireInt, minValue and maxValue (whole numbers)
NumberSchema(requireInt, minValue, maxValue) ==
  [requireInt |-> requireInt, minValue |-> minValue, maxValue |-> maxValue]

\* a variant of NumberSchema._parse that accepts every value
AnyNumberParse(schema, data, path) == Parsed(data)

NumberSchemaParse(schema, data, path) ==
  IF data.t = "undefined" THEN ZodError(path, "Required")
  ELSE IF data.t # "number" THEN ZodError(path, "Expected number")
  ELSE IF schema.requireInt /\ data.n % Scale # 0 THEN ZodError(path, "Expected integer")
  ELSE IF data.n < schema.minValue * Scale
  THEN ZodError(path, "Expected number >= " \o ToString(schema.minValue))
  ELSE IF data.n > schema.maxValue * Scale
  THEN ZodError(path, "Expected number <= " \o ToString(schema.maxValue))
  ELSE Parsed(data)

\* OptionalSchema around a NumberSchema
OptionalNumberParse(schema, data, path) ==
  IF data.t = "undefined" THEN Parsed(Undefined)
  ELSE NumberSchemaParse(schema, data, path)

----------------------------------------------------------------------------
(* src/unnamed/part_000: the POST /api/session handler *)

\* what safeParse gives: success and the data, or the issues of the error
NoObject == [scope |-> Undefined, ttlSeconds |-> Undefined]
Failure(issues) == [success |-> FALSE, data |-> NoObject, issues |-> issues]

\* sessionRequestSchema.safeParse(json), json what JSON.parse gave
sessionRequestSchema(json) ==
  IF json.kind # "object" THEN Failure(ZodError(<< >>, "Expected object").issues)
  ELSE
    LET scope == StringSchemaParse(StringSchema(1, Str(<< "p", "r", "a", "c", "t", "i", "c", "e" >>), ""),
                                   json.m.scope, << "scope" >>)
        ttlSeconds == OptionalNumberParse(NumberSchema(TRUE, 1, 600),
                                          json.m.ttlSeconds, << "ttlSeconds" >>)
    IN IF ~scope.ok THEN Failure(scope.issues)
       ELSE IF ~ttlSeconds.ok THEN Failure(ttlSeconds.issues)
       ELSE [success |-> TRUE,
             data |-> [scope |-> scope.data, ttlSeconds |-> ttlSeconds.data],
             issues |-> << >>]

\* a variant of sessionResponseSchema that finds no issue in any object
NoIssues(token, expiresAt, scope) == << >>

\* sessionResponseSchema.safeParse({ token, expiresAt, scope }): the issues,
\* none when the object is valid
sessionResponseSchema(token, expiresAt, scope) ==
  LET t == StringSchemaParse(StringSchema(1, Undefined, ""), token, << "token" >>)
      e == StringSchemaParse(StringSchema(-1, Undefined, "expiresAt must be an ISO timestamp"),
                             expiresAt, << "expiresAt" >>)
      c == StringSchemaParse(StringSchema(1, Undefined, ""), scope, << "scope" >>)
  IN IF ~t.ok THEN t.issues
     ELSE IF ~e.ok THEN e.issues
     ELSE c.issues

\* String.prototype.includes
includes(str, part) ==
  \E i \in 1..(Len(str) - Len(part) + 1) : SubSeq(str, i, i + Len(part) - 1) = part

ApplicationJson ==
  << "a", "p", "p", "l", "i", "c", "a", "t", "i", "o", "n", "/", "j", "s", "o", "n" >>

\* the request as the handler reads it: the authorization header and the
\* content-type header (a string or null) and the text of the body
NextRequest(authorization, contentType, body) ==
  [authorization |-> authorization, contentType |-> contentType, body |-> body]

\* a variant of the fallback of parseRequestBody: no fallback
JsonAsIs(json) == json

\* json ?? {}, and {} for the body request.json() could not parse
JsonOrEmpty(json) ==
  IF ~json.ok \/ json.kind = "null" THEN ParsedObject(NoMembers) ELSE json

\* parseRequestBody(request)
parseRequestBody(request) ==
  sessionRequestSchema(
    IF request.contentType.t # "string" \/ ~includes(request.contentType.s, ApplicationJson)
    THEN ParsedObject(NoMembers)
    ELSE JsonOrEmpty(JSONParse(request.body)))

\* a response NextResponse.json(body, { status }); an error that leaves POST
\* has status 0 and the error's name in thrown, its message in error
NoBody ==
  [error |-> "", issues |-> << >>, token |-> << >>, expiresAt |-> << >>, scope |-> Undefined]
ErrorResponse(status, message) ==
  [status |-> status, thrown |-> "", body |-> [NoBody EXCEPT !.error = message]]
Thrown(name, message) ==
  [status |-> 0, thrown |-> name, body |-> [NoBody EXCEPT !.error = message]]
SessionResponse(token, expiresAt, scope) ==
  [status |-> 200, thrown |-> "",
   body |-> [NoBody EXCEPT !.token = token, !.expiresAt = expiresAt, !.scope = scope]]

\* what one run of POST did: the response, and the calls of the token engine
\* it made (NoCall when it made none)
NoCall == Throw("none", "")
Ran(response, verified, created) ==
  [response |-> response, verified |-> verified, created |-> created]

unauthorizedResponse == ErrorResponse(401, "Unauthorized")

\* handleBearerToken, after verifySessionToken returned payload: the response
\* built from token, payload.scope and payload.exp * 1000 (exp is that number);
\* new Date(NaN).toISOString() throws a RangeError and an invalid response a
\* ZodError, and both are caught
RenewedResponse(token, scope, exp) ==
  IF exp.t # "number" THEN ErrorResponse(500, "Failed to validate session token")
  ELSE IF sessionResponseSchema(Str(token), Str(toISOString((exp.n * 1000) \div Scale)), scope)
            # << >>
  THEN ErrorResponse(500, "Failed to validate session token")
  ELSE SessionResponse(token, toISOString((exp.n * 1000) \div Scale), scope)

\* a variant of BearerResponse with the statuses of the two errors exchanged
ExchangedResponse(token, verified) ==
  CASE verified.status = "ok" ->
         RenewedResponse(token, verified.payload.scope, ToNumber(verified.payload.exp))
    [] verified.status = "TokenExpiredError" -> ErrorResponse(403, verified.message)
    [] verified.status = "TokenInvalidError" -> ErrorResponse(401, verified.message)
    [] OTHER -> ErrorResponse(500, "Failed to validate session token")

\* handleBearerToken, after the call of verifySessionToken gave verified
BearerResponse(token, verified) ==
  CASE verified.status = "ok" ->
         RenewedResponse(token, verified.payload.scope, ToNumber(verified.payload.exp))
    [] verified.status = "TokenExpiredError" -> ErrorResponse(401, verified.message)
    [] verified.status = "TokenInvalidError" -> ErrorResponse(403, verified.message)
    [] OTHER -> ErrorResponse(500, "Failed to validate session token")

\* the run of handleBearerToken that called verifySessionToken
Renewal(token, verified) == Ran(BearerResponse(token, verified), verified, NoCall)

\* handleBearerToken(authHeader)
handleBearerToken(authHeader, env, now) ==
  LET token == trim(SubSeq(authHeader, 8, Len(authHeader))) IN
  IF token = << >> THEN Ran(ErrorResponse(401, "Session token is required"), NoCall, NoCall)
  ELSE Renewal(token, verifySessionToken(token, now, NoScope, getSigningSecret(env)))

\* POST from line 51 on, createSessionToken having given created: an error
\* thrown there or by sessionResponseSchema.parse leaves POST
MintResponse(scope, created) ==
  IF ~Returned(created) THEN Ran(Thrown(created.status, created.message), NoCall, created)
  ELSE IF sessionResponseSchema(Str(created.token), Str(created.expiresAt), scope) # << >>
  THEN Ran(Thrown("ZodError", "Validation failed"), NoCall, created)
  ELSE Ran(SessionResponse(created.token, created.expiresAt, scope), NoCall, created)

\* POST from line 43 on, parseRequestBody having given requestBody
Mint(requestBody, env, now, jti) ==
  IF ~requestBody.success
  THEN Ran([ErrorResponse(400, "Invalid request body") EXCEPT !.body.issues = requestBody.issues],
           NoCall, NoCall)
  ELSE MintResponse(requestBody.data.scope,
                    createSessionToken(requestBody.data.scope, requestBody.data.ttlSeconds,
                                       now, getSigningSecret(env), jti))

\* a variant of the test of line 38 that lets every request pass
AnyCredentials(credentials, env) == TRUE

\* line 38: credentials && verifyAppPassword(credentials.password)
Authorized(credentials, env) ==
  credentials.ok /\ verifyAppPassword(Str(credentials.password), env)

\* POST(request), process.env being env, new Date() being now and
\* randomUUID() giving jti
POST(request, env, now, jti) ==
  IF ~Truthy(request.authorization) THEN Ran(unauthorizedResponse, NoCall, NoCall)
  ELSE IF startsWith(toLowerCase(request.authorization.s),
                     << "b", "e", "a", "r", "e", "r", " " >>)
  THEN handleBearerToken(request.authorization.s, env, now)
  ELSE IF ~Authorized(parseBasicAuthHeader(request.authorization), env)
  THEN Ran(unauthorizedResponse, NoCall, NoCall)
  ELSE Mint(parseRequestBody(request), env, now, jti)

----------------------------------------------------------------------------
(* The token engine as a state machine: createSessionToken and              *)
(* verifySessionToken applied to inputs drawn from bounded sets             *)

Practice == << "p", "r", "a", "c", "t", "i", "c", "e" >>
Lecture == << "l", "e", "c", "t", "u", "r", "e" >>

\* scopes a caller passes: two usual ones, one of white space only, the empty one
ScopeInputs == { Str(Practice), Str(Lecture), Str(<< " " >>), Str(<< >>) }

\* ttlSeconds a caller passes: omitted, -1, 0, 1, 1.5, 300, 301, 1000
TtlInputs ==
  { Undefined, Whole(-1), Whole(0), Whole(1), Num(1500), Whole(MAX_TTL_SECONDS),
    Whole(MAX_TTL_SECONDS + 1), Whole(1000) }

\* the last whole second of the instants createSessionToken is called at
MaxSecond == 1

\* instants (milliseconds): each whole second and the millisecond before the next
CreateInstants == { 1000 * k : k \in 0..MaxSecond } \cup { 1000 * k + 999 : k \in 0..(MaxSecond - 1) }

Secrets == { << "k" >>, << "s", "2" >> }

\* what randomUUID() gives: one of two identifiers (each stands for a UUID)
Jtis == { << "u", "1" >>, << "u", "2" >> }

\* the payload a token carries: its second segment decoded
PayloadOf(token) == JSONParse(Utf8String(Base64Decode(split(token, ".")[2]))).m

\* payload.exp * 1000, the instant a payload expires at
ExpiryMs(payload) == (payload.exp.n * 1000) \div Scale

NotMade ==
  [scope |-> Undefined, ttl |-> Undefined, now |-> 0, secret |-> << >>,
   result |-> NoCall, payload |-> NoMembers]
NotChecked ==
  [how |-> "none", token |-> << >>, now |-> 0, requiredScope |-> NoScope,
   secret |-> << >>, result |-> NoCall]

\* the handler at rest
NoEnv == [REALTIME_SESSION_SECRET |-> Undefined, APP_PASSWORD |-> Undefined]
NotMinted == [token |-> << >>, expiresAt |-> << >>, scope |-> Undefined, at |-> -1]
NotAsked ==
  [request |-> NextRequest(Null, Null, << >>), now |-> -1,
   response |-> ErrorResponse(0, ""), verified |-> NoCall, created |-> NoCall]
\* the credential gate not called yet
NotCalled ==
  [op |-> "none", header |-> Null, kind |-> "none", username |-> << >>, password |-> << >>,
   credentials |-> NoCredentials, candidate |-> Undefined, accepted |-> FALSE,
   a |-> << >>, b |-> << >>, compared |-> [equal |-> FALSE, visited |-> 0]]

HandlerIdle ==
  /\ processEnv = NoEnv
  /\ clock = 0
  /\ minted = NotMinted
  /\ last = NotAsked

EngineInit ==
  /\ gate = NotCalled
  /\ issued = { }
  /\ made = NotMade
  /\ checked = NotChecked
  /\ firstExpired = -1
  /\ HandlerIdle

\* the call createSessionToken({ scope, ttlSeconds, now, secret }) recorded,
\* with the payload the returned token carries
Made(scope, ttl, now, secret, jti) ==
  LET result == createSessionToken(scope, ttl, now, secret, jti) IN
  [scope |-> scope, ttl |-> ttl, now |-> now, secret |-> secret, result |-> result,
   payload |-> IF Returned(result) THEN PayloadOf(result.token) ELSE NoMembers]

\* createSessionToken({ scope, ttlSeconds, now, secret }), once
Create ==
  /\ made = NotMade
  /\ \E scope \in ScopeInputs, ttl \in TtlInputs, now \in CreateInstants,
        secret \in Secrets, jti \in Jtis :
       made' = Made(scope, ttl, now, secret, jti)
  /\ UNCHANGED << checked, firstExpired >>
  /\ UNCHANGED handlerVars
  /\ UNCHANGED << gate, issued >>

\* the instants verifySessionToken is called at: the instant of creation and
\* the milliseconds around the token's expiry
VerifyInstants == { made.now } \cup { ExpiryMs(made.payload) + d : d \in { -1, 0, 1 } }

RequiredScopes ==
  { OneScope(Practice), OneScope(Lecture), OneScope(<< >>),
    ScopeArray({ Practice, Lecture }), ScopeArray({ Lecture }), ScopeArray({ }) }

\* malformed tokens: none, the signature segment dropped, a fourth segment, the
\* payload segment dropped, the signature segment empty
Malformed(token) ==
  LET seg == split(token, ".") IN
  { << >>,
    seg[1] \o << "." >> \o seg[2],
    token \o << "." >> \o seg[3],
    seg[1] \o << "." >> \o seg[3],
    seg[1] \o << "." >> \o seg[2] \o << "." >> }

Call(how, token, now, requiredScope, secret) ==
  [how |-> how, token |-> token, now |-> now, requiredScope |-> requiredScope,
   secret |-> secret]

\* verifySessionToken is a function of its arguments: only the history
\* firstExpired links one call to the next.  So the plain call (the token as it
\* was returned, its own secret, no requiredScope) repeats at any instants, and
\* each other call (a requiredScope, another secret, a malformed token) is made
\* once, on the token not yet verified.
PlainCalls ==
  { Call("plain", made.result.token, now, NoScope, made.secret) : now \in VerifyInstants }
OtherCalls ==
  { Call("scoped", made.result.token, now, requiredScope, made.secret) :
      now \in VerifyInstants, requiredScope \in RequiredScopes }
  \cup { Call("othersecret", made.result.token, now, NoScope, secret) :
           now \in VerifyInstants, secret \in Secrets \ { made.secret } }
  \cup { Call("malformed", token, now, NoScope, made.secret) :
           now \in VerifyInstants, token \in Malformed(made.result.token) }
Calls ==
  IF checked.how = "none" THEN PlainCalls \cup OtherCalls
  ELSE IF checked.how = "plain" THEN PlainCalls
  ELSE { }

\* the call verifySessionToken(token, { now, requiredScope, secret }) recorded
Checked(call) ==
  call @@ [result |-> verifySessionToken(call.token, call.now, call.requiredScope, call.secret)]

Verify ==
  /\ Returned(made.result)
  /\ \E call \in Calls :
       /\ checked' = Checked(call)
       /\ firstExpired' =
            IF checked'.result.status = "TokenExpiredError"
               /\ (firstExpired = -1 \/ call.now < firstExpired)
            THEN call.now ELSE firstExpired
  /\ UNCHANGED made
  /\ UNCHANGED handlerVars
  /\ UNCHANGED << gate, issued >>

EngineNext == Create \/ Verify

EngineSpec == EngineInit /\ [][EngineNext]_vars

----------------------------------------------------------------------------
(* Tampering: one character of a returned token replaced, then verified *)

\* createSessionToken, once, for the tokens that are tampered with
TamperCreate ==
  /\ made = NotMade
  /\ \E ttl \in { Whole(1), Whole(1000) }, secret \in Secrets, jti \in Jtis :
       made' = Made(Str(Practice), ttl, 0, secret, jti)
  /\ UNCHANGED << checked, firstExpired >>
  /\ UNCHANGED handlerVars
  /\ UNCHANGED << gate, issued >>

\* the positions of the payload segment and of the signature segment
PayloadPositions(token) ==
  LET seg == split(token, ".") IN (Len(seg[1]) + 2)..(Len(seg[1]) + 1 + Len(seg[2]))
SignaturePositions(token) ==
  LET seg == split(token, ".") IN (Len(seg[1]) + Len(seg[2]) + 3)..Len(token)

\* the characters that replace c: the next one of the alphabet, "A", "=" and
\* the separator
Replacements(c) ==
  { B64Char((Unbase64Table[c] + 1) % 64, TRUE), "A", "=", "." } \ { c }

Changed(token, pos, c) == [token EXCEPT ![pos] = c]

\* verifySessionToken on the token with one character replaced, at the instant
\* of creation, at the instant of expiry or a second after that
VerifyTampered ==
  /\ Returned(made.result)
  /\ checked.how = "none"
  /\ \E pos \in PayloadPositions(made.result.token) \cup SignaturePositions(made.result.token),
        now \in { made.now, ExpiryMs(made.payload), ExpiryMs(made.payload) + 1000 } :
       \E c \in Replacements(made.result.token[pos]) :
         checked' = Checked(Call("tampered", Changed(made.result.token, pos, c), now,
                                 NoScope, made.secret))
  /\ UNCHANGED << made, firstExpired >>
  /\ UNCHANGED handlerVars
  /\ UNCHANGED << gate, issued >>

TamperNext == TamperCreate \/ VerifyTampered

TamperSpec == EngineInit /\ [][TamperNext]_vars

----------------------------------------------------------------------------
(* The handler as a state machine: requests drawn from bounded sets, handled *)
(* one after another while the clock moves on                               *)

Password == << "p", "w" >>

\* process.env: nothing set, the app password only, the app password and a
\* signing secret of its own
Envs ==
  { NoEnv,
    [NoEnv EXCEPT !.APP_PASSWORD = Str(Password)],
    [NoEnv EXCEPT !.APP_PASSWORD = Str(Password), !.REALTIME_SESSION_SECRET = Str(<< "k" >>)] }

\* header values a client sends
BasicHeader(username, password) ==
  << "B", "a", "s", "i", "c", " " >>
    \o Base64Encode(Utf8Bytes(username \o << ":" >> \o password), FALSE)
BearerHeader(token) == << "B", "e", "a", "r", "e", "r", " " >> \o token

GoodBasic == Str(BasicHeader(<< "x" >>, Password))

\* headers that carry no valid credentials: none, an empty one, a wrong
\* password of the right length and one of another length, no colon, another
\* scheme, a scheme alone, "Bearer" alone
BadHeaders ==
  { Null, Str(<< >>),
    Str(BasicHeader(<< "x" >>, << "p", "x" >>)),
    Str(BasicHeader(<< "x" >>, << "p", "w", "d" >>)),
    Str(<< "B", "a", "s", "i", "c", " " >> \o Base64Encode(Utf8Bytes(<< "x", "p", "w" >>), FALSE)),
    Str(<< "D", "i", "g", "e", "s", "t", " " >> \o Base64Encode(Utf8Bytes(<< "x", ":", "p", "w" >>), FALSE)),
    Str(<< "B", "a", "s", "i", "c" >>),
    Str(<< "B", "e", "a", "r", "e", "r" >>) }

Json == Str(ApplicationJson)
JsonCharset ==
  Str(ApplicationJson \o << ";", " ", "c", "h", "a", "r", "s", "e", "t", "=", "u", "t", "f", "-", "8" >>)
TextPlain == Str(<< "t", "e", "x", "t", "/", "p", "l", "a", "i", "n" >>)

\* the text of a body with the given scope and ttlSeconds (Undefined: absent)
Body(scope, ttlSeconds) ==
  JSONStringify([NoMembers EXCEPT !.scope = scope, !.ttlSeconds = ttlSeconds])

LectureBody == Body(Str(Lecture), Undefined)

\* bodies: none, {}, a scope (usual, of white space only, empty, a number), a
\* ttlSeconds (1, 600, 601, 0, 1.5, the string "5"), both, null, a number, a
\* broken text
Bodies ==
  { << >>, Body(Undefined, Undefined), LectureBody,
    Body(Str(<< " " >>), Undefined), Body(Str(<< >>), Undefined), Body(Whole(5), Undefined),
    Body(Undefined, Whole(1)), Body(Undefined, Whole(600)), Body(Undefined, Whole(601)),
    Body(Undefined, Whole(0)), Body(Undefined, Num(1500)), Body(Undefined, Str(<< "5" >>)),
    Body(Str(Lecture), Whole(MAX_TTL_SECONDS)),
    << "n", "u", "l", "l" >>, << "5" >>, << "{" >> }

\* a token created before the process started, under the secret it reads now
EarlierToken(env) ==
  createSessionToken(Str(Practice), Whole(1), 0, getSigningSecret(env), << "u", "0" >>).token

\* tokens signed by someone who knows the development secret: a scope that is
\* no string, an exp that is no number, and a payload as createSessionToken
\* makes it
ForgedTokens ==
  { signPayload([NoMembers EXCEPT !.scope = Whole(5), !.exp = Whole(900)], getSigningSecret(NoEnv)),
    signPayload([NoMembers EXCEPT !.jti = Str(<< "u", "9" >>), !.scope = Str(Lecture),
                                  !.iat = Whole(0), !.exp = Whole(900)],
                getSigningSecret(NoEnv)),
    signPayload([NoMembers EXCEPT !.scope = Str(Practice), !.exp = Str(<< "x" >>)],
                getSigningSecret(NoEnv)) }

\* the token with its last character replaced
Tampered(token) ==
  [token EXCEPT ![Len(token)] = IF token[Len(token)] = "A" THEN "B" ELSE "A"]

\* the requests while no token is minted yet; earlier is the token created
\* before the process started
FirstRequests(earlier) ==
  { NextRequest(GoodBasic, Json, body) : body \in Bodies }
  \cup { NextRequest(GoodBasic, contentType, LectureBody) :
           contentType \in { Null, TextPlain, JsonCharset } }
  \cup { NextRequest(header, Null, << >>) : header \in BadHeaders }
  \cup { NextRequest(header, Json, body) :
           header \in BadHeaders, body \in { LectureBody, Body(Undefined, Whole(601)) } }
  \cup { NextRequest(Str(BearerHeader(token)), Json, Body(Undefined, Whole(601))) :
           token \in { earlier, Tampered(earlier) } }
  \cup { NextRequest(Str(BearerHeader(token)), Null, << >>) :
           token \in ForgedTokens
                     \cup { << NoBreakSpace >>, << "a", "b", "c" >>, earlier, Tampered(earlier) } }
  \cup { NextRequest(Str(<< "b", "e", "a", "r", "e", "r", " ", " " >>
                          \o earlier \o << NoBreakSpace >>),
                     Json, LectureBody) }

\* the requests once a token is minted: that token renewed, as it is, under a
\* header in another case, and tampered with; and requests of each other kind
ShoutedHeader(token) ==
  << "B", "E", "A", "R", "E", "R", " " >> \o token \o << NoBreakSpace >>

LaterRequests(earlier) ==
  { NextRequest(Str(BearerHeader(minted.token)), Null, << >>),
    NextRequest(Str(ShoutedHeader(minted.token)), Json, LectureBody),
    NextRequest(Str(BearerHeader(Tampered(minted.token))), Null, << >>),
    NextRequest(Str(BearerHeader(earlier)), Null, << >>),
    NextRequest(GoodBasic, Null, << >>),
    NextRequest(GoodBasic, Json, Body(Undefined, Whole(600))),
    NextRequest(Str(BasicHeader(<< "x" >>, << "p", "x" >>)), Null, << >>),
    NextRequest(Null, Null, << >>) }

RequestsWith(earlier) ==
  IF minted = NotMinted THEN FirstRequests(earlier) ELSE LaterRequests(earlier)
Requests == RequestsWith(EarlierToken(processEnv))

\* the instant the body of a 200 response says the token expires at
ExpiryOf(body) == DateParse(body.expiresAt).ms

\* the instants requests arrive at: those createSessionToken is tried at, the
\* milliseconds around the expiry of the minted token, and the instant
\* MAX_TTL_SECONDS after the mint
Instants ==
  CreateInstants
    \cup (IF minted = NotMinted THEN { }
          ELSE { ExpiryOf(minted) + d : d \in { -1, 0, 1 } }
                 \cup { minted.at + MAX_TTL_SECONDS * 1000 })

Init ==
  /\ processEnv \in Envs
  /\ clock = 0
  /\ minted = NotMinted
  /\ last = NotAsked
  /\ made = NotMade
  /\ checked = NotChecked
  /\ firstExpired = -1
  /\ gate = NotCalled
  /\ issued = { }

\* the state after POST ran on request
Handled(request, ran) ==
  /\ last' = [request |-> request, now |-> clock, response |-> ran.response,
              verified |-> ran.verified, created |-> ran.created]
  /\ minted' =
       IF minted = NotMinted /\ ran.response.status = 200 /\ Returned(ran.created)
       THEN [token |-> ran.response.body.token, expiresAt |-> ran.response.body.expiresAt,
             scope |-> ran.response.body.scope, at |-> clock]
       ELSE minted

\* a request arrives and POST runs on it, at the instant of the clock
Post ==
  /\ last = NotAsked
  /\ \E request \in Requests, jti \in Jtis :
       Handled(request, POST(request, processEnv, clock, jti))
  /\ UNCHANGED << processEnv, clock >>
  /\ UNCHANGED engineVars
  /\ UNCHANGED << gate, issued >>

\* the response is sent: the handler keeps nothing of the request
Deliver ==
  /\ last # NotAsked
  /\ last' = NotAsked
  /\ UNCHANGED << processEnv, clock, minted >>
  /\ UNCHANGED engineVars
  /\ UNCHANGED << gate, issued >>

\* between two requests time passes, up to a later instant
Tick ==
  /\ last = NotAsked
  /\ \E t \in Instants : t > clock /\ clock' = t
  /\ UNCHANGED << processEnv, minted, last >>
  /\ UNCHANGED engineVars
  /\ UNCHANGED << gate, issued >>

Next == Post \/ Deliver \/ Tick

Spec == Init /\ [][Next]_vars

----------------------------------------------------------------------------
(* Properties of the token engine (EngineSpec) *)

\* the call recorded in checked verifies the token of made as it was returned,
\* under the secret it was created with
ChecksMade(how) ==
  /\ Returned(made.result)
  /\ checked.how = how
  /\ checked.token = made.result.token
  /\ checked.secret = made.secret

\* the requested ttl of made is a whole number of seconds in 1..MAX_TTL_SECONDS
WholeTtl ==
  /\ made.ttl.t = "number"
  /\ made.ttl.n % Scale = 0
  /\ made.ttl.n \div Scale \in 1..MAX_TTL_SECONDS

\* checked is a round trip of made: verified at the instant of creation, with
\* no requiredScope or with the scope of made as requiredScope
RoundTrip ==
  /\ checked.token = made.result.token
  /\ checked.secret = made.secret
  /\ checked.now = made.now
  /\ \/ checked.how = "plain"
     \/ checked.how = "scoped" /\ checked.requiredScope = OneScope(made.scope.s)

\* what the round trip must give: the scope of made, and an expiry of
\* floor(now in seconds) + ttlSeconds
RoundTripResult ==
  /\ checked.result.status = "ok"
  /\ checked.result.payload.scope = made.scope
  /\ checked.result.payload.exp = Whole((made.now \div 1000) + (made.ttl.n \div Scale))

Lifetime == made.payload.exp.n - made.payload.iat.n
Requested == IF made.ttl.t = "undefined" THEN DEFAULT_TTL_SECONDS * Scale ELSE made.ttl.n

\* C2: every token createSessionToken returns carries exp > iat and
\* exp - iat = min(requested ttl, 300), the default standing for a ttl not
\* given; so no lifetime is above 300 seconds.
C2_LifetimeCeiling ==
  Returned(made.result)
    => /\ made.payload.exp.t = "number" /\ made.payload.iat.t = "number"
       /\ Lifetime > 0
       /\ Lifetime = (IF Requested <= 300 * Scale THEN Requested ELSE 300 * Scale)
       /\ Lifetime <= 300 * Scale

C2_Witness ==
  /\ Returned(made.result)
  /\ made.ttl = Whole(1000)
  /\ Lifetime = 300 * Scale

\* C3: a token as returned, verified under its secret with no requiredScope,
\* throws TokenExpiredError at every instant at or after exp * 1000 and
\* succeeds at every instant before it; and once a verification has thrown
\* TokenExpiredError, none at that instant or a later one succeeds.
C3_ExpiryBoundary ==
  ChecksMade("plain")
    => /\ checked.now >= ExpiryMs(made.payload) => checked.result.status = "TokenExpiredError"
       /\ checked.now < ExpiryMs(made.payload) => checked.result.status = "ok"
       /\ (firstExpired # -1 /\ checked.now >= firstExpired) => checked.result.status # "ok"

C3_Witness ==
  /\ ChecksMade("plain")
  /\ checked.now = ExpiryMs(made.payload) - 1
  /\ checked.result.status = "ok"
  /\ firstExpired = ExpiryMs(made.payload)

\* the values a requiredScope supplies
Supplied(requiredScope) ==
  IF requiredScope.kind = "array" THEN requiredScope.a ELSE { requiredScope.s }

\* C5 as stated: an unexpired token as returned, verified under its secret with
\* any requiredScope supplied (one value or a set of values), throws
\* TokenInvalidError when its scope is not among the values and succeeds when
\* it is.
C5_ScopeEnforced ==
  (ChecksMade("scoped") /\ checked.now < ExpiryMs(made.payload))
    => IF made.scope.s \in Supplied(checked.requiredScope)
       THEN checked.result.status = "ok"
       ELSE checked.result.status = "TokenInvalidError"

\* C6: a malformed token, or one whose signature does not match, throws
\* TokenInvalidError also at and after its expiry; a token as returned that is
\* both expired and of a scope outside requiredScope throws TokenExpiredError.
C6_ErrorPrecedence ==
  /\ (Returned(made.result) /\ checked.how \in { "malformed", "othersecret" })
       => checked.result.status = "TokenInvalidError"
  /\ (ChecksMade("scoped") /\ checked.now >= ExpiryMs(made.payload)
        /\ made.scope.s \notin Supplied(checked.requiredScope))
       => checked.result.status = "TokenExpiredError"

C6_Witness ==
  /\ checked.how = "othersecret"
  /\ checked.now >= ExpiryMs(made.payload)
  /\ checked.result.status = "TokenInvalidError"
  /\ checked.result.message = "Token signature mismatch"

\* C4: a token as returned with one character of its payload segment or of its
\* signature segment replaced, verified under its secret, throws
\* TokenInvalidError at every instant: it never succeeds and never throws
\* TokenExpiredError.
C4_TamperDetected ==
  checked.how = "tampered" => checked.result.status = "TokenInvalidError"

C4_Witness ==
  /\ checked.how = "tampered"
  /\ checked.now >= ExpiryMs(made.payload)
  /\ \E pos \in PayloadPositions(made.result.token) : checked.token[pos] # made.result.token[pos]
  /\ Len(split(checked.token, ".")) = 3
  /\ checked.result.status = "TokenInvalidError"

----------------------------------------------------------------------------
(* Properties of the handler (Spec) *)

\* the last request carries the minted token as a Bearer token
RenewsMinted ==
  /\ minted # NotMinted
  /\ last.request.authorization
       \in { Str(BearerHeader(minted.token)), Str(ShoutedHeader(minted.token)) }

\* C7: once the handler has minted a token (200 on the Basic branch), whatever
\* requests were handled since, a Bearer request that carries the token at an
\* instant before its expiry gets 200 with the token, the scope and the
\* expiresAt of the mint response; and no Bearer request for the token gets a
\* later expiresAt.
C7_NoRevocationNoExtension ==
  RenewsMinted
    => /\ last.now < ExpiryOf(minted)
            => last.response = SessionResponse(minted.token, minted.expiresAt, minted.scope)
       /\ last.response.status = 200 => ExpiryOf(last.response.body) <= ExpiryOf(minted)

C7_Witness ==
  /\ RenewsMinted
  /\ last.now > minted.at
  /\ last.now = ExpiryOf(minted) - 1
  /\ minted.scope = Str(Lecture)
  /\ last.response = SessionResponse(minted.token, minted.expiresAt, minted.scope)

\* the last request is on the Bearer branch
OnBearerBranch ==
  /\ last # NotAsked
  /\ last.request.authorization.t = "string"
  /\ Len(last.request.authorization.s) >= 7
  /\ toLowerCase(SubSeq(last.request.authorization.s, 1, 7))
       = << "b", "e", "a", "r", "e", "r", " " >>

\* the token of a Bearer request, and what verifySessionToken gives for it at
\* the instant of the request
BearerToken == trim(SubSeq(last.request.authorization.s, 8, Len(last.request.authorization.s)))
BearerVerdict == verifySessionToken(BearerToken, last.now, NoScope, getSigningSecret(processEnv))

\* C8: on the Bearer branch with a token that is not empty the response is 401
\* with the engine's message exactly when verifySessionToken throws
\* TokenExpiredError, 403 with the engine's message exactly when it throws
\* TokenInvalidError, 200 only when it returns, and else 500 with the generic
\* message; a token that is empty after trimming gets 401 "Session token is
\* required".
C8_BearerStatusMapping ==
  OnBearerBranch
    => IF BearerToken = << >>
       THEN last.response = ErrorResponse(401, "Session token is required")
       ELSE /\ last.response.status = 401 <=> BearerVerdict.status = "TokenExpiredError"
            /\ last.response.status = 403 <=> BearerVerdict.status = "TokenInvalidError"
            /\ last.response.status \in { 401, 403 }
                 => last.response = ErrorResponse(last.response.status, BearerVerdict.message)
            /\ last.response.status = 200 => BearerVerdict.status = "ok"
            /\ last.response.status \notin { 200, 401, 403 }
                 => last.response = ErrorResponse(500, "Failed to validate session token")

C8_Witness ==
  /\ OnBearerBranch
  /\ BearerToken # << >>
  /\ last.verified.status = "ok"
  /\ last.response = ErrorResponse(500, "Failed to validate session token")

\* the last request has no Authorization header, or one that is no Bearer
\* header and gives no Basic credentials, or one with Basic credentials whose
\* password is not the app password (none being set, no password is)
Rejected ==
  /\ last # NotAsked
  /\ ~OnBearerBranch
  /\ \/ last.request.authorization = Null
     \/ ~parseBasicAuthHeader(last.request.authorization).ok
     \/ processEnv.APP_PASSWORD = Undefined
     \/ parseBasicAuthHeader(last.request.authorization).password # processEnv.APP_PASSWORD.s

\* C9: a request with no Authorization header, one whose header is no Bearer
\* header and cannot be parsed as Basic credentials, and one with Basic
\* credentials and a wrong password all get the same response, 401 with the body
\* { error: "Unauthorized" }, whatever the body and whether or not an app
\* password is set.
C9_IndistinguishableRejection ==
  Rejected => last.response = ErrorResponse(401, "Unauthorized")

C9_Witness ==
  /\ Rejected
  /\ processEnv.APP_PASSWORD = Str(Password)
  /\ last.request = NextRequest(Str(BasicHeader(<< "x" >>, << "p", "x" >>)), Json, LectureBody)
  /\ last.response = ErrorResponse(401, "Unauthorized")

\* C10 as stated: every request gets one of the responses of the response
\* table (401, 403, 500 with the generic message, 400 with issues, 200 with
\* token, expiresAt and scope), and no error of createSessionToken or
\* verifySessionToken leaves the handler.
C10_ResolvedAtBoundary ==
  last # NotAsked
    => /\ last.response.thrown = ""
       /\ \/ /\ last.response.status \in { 401, 403 }
             /\ last.response = ErrorResponse(last.response.status, last.response.body.error)
          \/ last.response = ErrorResponse(500, "Failed to validate session token")
          \/ /\ last.response.status = 400
             /\ last.response.body.issues # << >>
          \/ /\ last.response.status = 200
             /\ last.response
                  = SessionResponse(last.response.body.token, last.response.body.expiresAt,
                                    last.response.body.scope)

----------------------------------------------------------------------------
(* createSessionToken and its ttlSeconds (EngineSpec) *)

\* the ttlSeconds of made is a positive whole number
PositiveInteger(ttl) == ttl.t = "number" /\ ttl.n > 0 /\ ttl.n % Scale = 0

\* C11 as stated: createSessionToken called with a ttlSeconds that is supplied
\* and is no positive integer (zero, negative, or fractional as 1.5) throws
\* TokenInvalidError and returns no token; called with no ttlSeconds, the token
\* it returns lives 60 seconds.
C11_BadTtlRejected ==
  /\ (made # NotMade /\ made.ttl.t = "number" /\ ~PositiveInteger(made.ttl))
       => /\ made.result.status = "TokenInvalidError"
          /\ made.result.token = << >>
  /\ (Returned(made.result) /\ made.ttl = Undefined)
       => Lifetime = DEFAULT_TTL_SECONDS * Scale

----------------------------------------------------------------------------
(* The credential gate as a state machine: parseBasicAuthHeader,            *)
(* verifyAppPassword and timingSafeCompare applied to inputs drawn from     *)
(* bounded sets                                                             *)

\* process.env of the gate: no app password, an empty one, one set, one set
\* that holds a colon
GateEnvs ==
  { NoEnv,
    [NoEnv EXCEPT !.APP_PASSWORD = Str(<< >>)],
    [NoEnv EXCEPT !.APP_PASSWORD = Str(Password)],
    [NoEnv EXCEPT !.APP_PASSWORD = Str(<< "p", ":", "w" >>)] }

\* operands of timingSafeCompare: the empty string, strings of one, two and
\* three characters that differ at the first, at the last or at no position
Operands ==
  { << >>, << "p" >>, Password, << "p", "x" >>, << "x", "w" >>, << "P", "w" >>,
    << "p", "w", "d" >>, << "p", ":", "w" >> }

\* passwords offered to verifyAppPassword: none (undefined, null) and strings
Candidates == { Undefined, Null } \cup { Str(o) : o \in Operands }

\* the header scheme, a space, base64(text)
SchemeHeader(scheme, text) == scheme \o << " " >> \o Base64Encode(Utf8Bytes(text), FALSE)

\* "Basic" in several letter cases
BasicSchemes ==
  { << "B", "a", "s", "i", "c" >>, << "b", "a", "s", "i", "c" >>,
    << "B", "A", "S", "I", "C" >>, << "b", "A", "s", "I", "c" >> }

\* usernames without a colon, passwords with and without colons
Usernames == { << >>, << "x" >>, << "a", "b" >>, << "a", " ", "b" >> }
Passwords ==
  { << >>, Password, << "p", ":", "w" >>, << ":" >>, << ":", "p", "w", ":" >>,
    << "a", ":", "b", ":", "c" >> }

\* a header as parseBasicAuthHeader receives it, with what it was built from
GateHeader(kind, username, password, header) ==
  [kind |-> kind, username |-> username, password |-> password, header |-> header]

\* "x:pw" in base64
EncodedXPw == Base64Encode(Utf8Bytes(<< "x", ":" >> \o Password), FALSE)

\* headers that carry credentials: scheme, space, base64(username:password)
CredentialHeaders ==
  { GateHeader("credentials", username, password,
               Str(SchemeHeader(scheme, username \o << ":" >> \o password))) :
      scheme \in BasicSchemes, username \in Usernames, password \in Passwords }

\* headers that carry none: absent (null, undefined, empty); malformed (the
\* scheme alone, the scheme and a space, a leading space, two spaces, no space);
\* another scheme; invalid base64 (a character outside the alphabet in front,
\* inside and after the padding, a length of 5, no character of the alphabet);
\* no colon in the decoded text
OtherHeaders ==
  { GateHeader("absent", << >>, << >>, header) : header \in { Null, Undefined, Str(<< >>) } }
  \cup { GateHeader("malformed", << >>, << >>, Str(header)) :
           header \in { << "B", "a", "s", "i", "c" >>,
                        << "B", "a", "s", "i", "c", " " >>,
                        << " " >> \o BasicHeader(<< "x" >>, Password),
                        << "B", "a", "s", "i", "c", " ", " " >> \o EncodedXPw,
                        << "B", "a", "s", "i", "c" >> \o EncodedXPw } }
  \cup { GateHeader("scheme", << >>, << >>, Str(scheme \o << " " >> \o EncodedXPw)) :
           scheme \in { << "D", "i", "g", "e", "s", "t" >>, << "B", "e", "a", "r", "e", "r" >>,
                        << "B", "a", "s", "i" >>, << "B", "a", "s", "i", "c", "s" >> } }
  \cup { GateHeader("base64", << >>, << >>, Str(<< "B", "a", "s", "i", "c", " " >> \o value)) :
           value \in { << "!" >> \o EncodedXPw,
                       SubSeq(EncodedXPw, 1, 2) \o << "!" >> \o SubSeq(EncodedXPw, 3, Len(EncodedXPw)),
                       EncodedXPw \o << "!" >>,
                       SubSeq(EncodedXPw, 1, 5),
                       << "%", "%", "%" >> } }
  \cup { GateHeader("nocolon", << >>, << >>, Str(SchemeHeader(<< "B", "a", "s", "i", "c" >>, text))) :
           text \in { << "x" >>, << "x", "p", "w" >> } }
  \cup { GateHeader("trailing", << >>, << >>,
                    Str(BasicHeader(<< "x" >>, Password) \o << " ", "x" >>)) }

GateHeaders == CredentialHeaders \cup OtherHeaders

GateInit ==
  /\ processEnv \in GateEnvs
  /\ gate = NotCalled
  /\ issued = { }
  /\ clock = 0
  /\ minted = NotMinted
  /\ last = NotAsked
  /\ made = NotMade
  /\ checked = NotChecked
  /\ firstExpired = -1

\* parseBasicAuthHeader(header)
Parse ==
  /\ \E h \in GateHeaders :
       gate' = [NotCalled EXCEPT !.op = "parse", !.kind = h.kind, !.header = h.header,
                                 !.username = h.username, !.password = h.password,
                                 !.credentials = parseBasicAuthHeader(h.header)]
  /\ UNCHANGED << engineVars, handlerVars, issued >>

\* verifyAppPassword(candidate)
VerifyPassword ==
  /\ \E candidate \in Candidates :
       gate' = [NotCalled EXCEPT !.op = "verify", !.candidate = candidate,
                                 !.accepted = verifyAppPassword(candidate, processEnv)]
  /\ UNCHANGED << engineVars, handlerVars, issued >>

\* timingSafeCompare(a, b)
Compare ==
  /\ \E a \in Operands, b \in Operands :
       gate' = [NotCalled EXCEPT !.op = "compare", !.a = a, !.b = b,
                                 !.compared = timingSafeCompare(a, b)]
  /\ UNCHANGED << engineVars, handlerVars, issued >>

GateNext == Parse \/ VerifyPassword \/ Compare

GateSpec == GateInit /\ [][GateNext]_vars

----------------------------------------------------------------------------
(* Properties of the credential gate (GateSpec) *)

\* C12 as stated: for every pair of operands, also of different lengths, the
\* comparison reads every position of both operands before it returns, so the
\* number of steps does not depend on whether or where they differ.
C12_EveryByteVisited ==
  gate.op = "compare"
    => /\ gate.compared.visited >= Len(gate.a)
       /\ gate.compared.visited >= Len(gate.b)

\* the app password of process.env is set and not empty
AppPasswordSet ==
  processEnv.APP_PASSWORD.t = "string" /\ processEnv.APP_PASSWORD.s # << >>

\* C13: verifyAppPassword returns a boolean for every candidate, the absent and
\* the empty one included; it returns true exactly when an app password is
\* set, is not empty and equals the candidate in length and in every
\* character; with no app password set it returns false for every candidate.
C13_ExactFailClosed ==
  gate.op = "verify"
    => /\ gate.accepted \in BOOLEAN
       /\ gate.accepted
            <=> /\ AppPasswordSet
                /\ gate.candidate.t = "string"
                /\ Len(gate.candidate.s) = Len(processEnv.APP_PASSWORD.s)
                /\ \A i \in 1..Len(gate.candidate.s) :
                     gate.candidate.s[i] = processEnv.APP_PASSWORD.s[i]
       /\ ~AppPasswordSet => ~gate.accepted

C13_Witness ==
  /\ gate.op = "verify"
  /\ processEnv.APP_PASSWORD = Str(Password)
  /\ gate.candidate = Str(Password)
  /\ gate.accepted

----------------------------------------------------------------------------
(* Properties of the handler's Basic branch (Spec) *)

\* the last request carries Basic credentials with the app password
ValidBasic ==
  /\ last # NotAsked
  /\ last.request.authorization = GoodBasic
  /\ processEnv.APP_PASSWORD = Str(Password)

\* the last request declares a JSON body
DeclaresJson ==
  /\ last.request.contentType.t = "string"
  /\ includes(last.request.contentType.s, ApplicationJson)

\* json is an object whose scope is no string or is empty, or whose ttlSeconds
\* is no whole number or lies outside 1..600
ViolatesSchema(json) ==
  /\ json.ok
  /\ json.kind = "object"
  /\ \/ /\ json.m.scope # Undefined
        /\ (json.m.scope.t # "string" \/ json.m.scope.s = << >>)
     \/ /\ json.m.ttlSeconds # Undefined
        /\ ~(PositiveInteger(json.m.ttlSeconds) /\ json.m.ttlSeconds.n <= 600 * Scale)

\* C14: a request with valid Basic credentials and a JSON body that parses
\* but violates the schema gets 400 with the error "Invalid request body" and
\* at least one issue, and createSessionToken is not called.
C14_InvalidBodyRejected ==
  (ValidBasic /\ DeclaresJson /\ ViolatesSchema(JSONParse(last.request.body)))
    => /\ last.response.status = 400
       /\ last.response.thrown = ""
       /\ last.response.body.error = "Invalid request body"
       /\ last.response.body.issues # << >>
       /\ last.response.body.token = << >>
       /\ last.created = NoCall

C14_Witness ==
  /\ ValidBasic
  /\ last.request = NextRequest(GoodBasic, Json, Body(Undefined, Whole(601)))
  /\ last.response.status = 400
  /\ last.response.body.issues
       = << [path |-> << "ttlSeconds" >>, message |-> "Expected number <= 600"] >>
  /\ last.created = NoCall

\* C15: a request with valid Basic credentials whose body is absent, whose
\* content type is absent or is not JSON, or whose JSON body does not parse
\* gets 200 with the scope "practice" and an expiresAt exactly 60 seconds after
\* floor(now in seconds); it never gets 400.
C15_CredentialOnlyMint ==
  (ValidBasic /\ (last.request.body = << >> \/ ~DeclaresJson \/ ~JSONParse(last.request.body).ok))
    => /\ last.response.status = 200
       /\ last.response.thrown = ""
       /\ last.response.body.scope = Str(Practice)
       /\ last.response.body.token # << >>
       /\ ExpiryOf(last.response.body) = ((last.now \div 1000) + DEFAULT_TTL_SECONDS) * 1000

C15_Witness ==
  /\ ValidBasic
  /\ last.request = NextRequest(GoodBasic, Json, << "{" >>)
  /\ last.now = 999
  /\ last.response.status = 200
  /\ last.response.body.scope = Str(Practice)
  /\ ExpiryOf(last.response.body) = DEFAULT_TTL_SECONDS * 1000

----------------------------------------------------------------------------
(* Properties of parseBasicAuthHeader (GateSpec) *)

\* C16: for every username without a colon and every password (with or
\* without colons), the header made of the scheme Basic in any letter case, a
\* space and base64(username ":" password) parses to exactly that username and
\* that password.
C16_FirstColonSplit ==
  (gate.op = "parse" /\ gate.kind = "credentials")
    => /\ gate.credentials.ok
       /\ gate.credentials.username = gate.username
       /\ gate.credentials.password = gate.password

C16_Witness ==
  /\ gate.op = "parse"
  /\ gate.header = Str(SchemeHeader(<< "b", "A", "s", "I", "c" >>,
                                    << "a", "b", ":", "a", ":", "b", ":", "c" >>))
  /\ gate.credentials
       = [ok |-> TRUE, username |-> << "a", "b" >>, password |-> << "a", ":", "b", ":", "c" >>]

\* C17 as stated: parseBasicAuthHeader returns no credentials for every header
\* that is absent, malformed, of a scheme other than Basic, of invalid base64,
\* or whose decoded text holds no colon.
C17_NoCredentials ==
  (gate.op = "parse" /\ gate.kind \in { "absent", "malformed", "scheme", "base64", "nocolon" })
    => gate.credentials = NoCredentials

----------------------------------------------------------------------------
(* Properties of the handler's responses and branches (Spec) *)

\* C18: every 200 response, of the Basic branch and of the Bearer branch, has
\* the body { token, expiresAt, scope } and nothing else, with token a
\* non-empty string, expiresAt a timestamp Date.parse reads, and scope a
\* non-empty string equal to the scope in the payload of the token.
C18_UniformSuccessBody ==
  (last # NotAsked /\ last.response.status = 200)
    => /\ last.response
            = SessionResponse(last.response.body.token, last.response.body.expiresAt,
                              last.response.body.scope)
       /\ last.response.body.token # << >>
       /\ DateParse(last.response.body.expiresAt).ok
       /\ last.response.body.scope.t = "string"
       /\ last.response.body.scope.s # << >>
       /\ last.response.body.scope = PayloadOf(last.response.body.token).scope

\* the token of the Basic branch renewed on the Bearer branch: both bodies
\* hold the same token, expiresAt and scope
C18_Witness ==
  /\ minted # NotMinted
  /\ last.request = NextRequest(Str(BearerHeader(minted.token)), Null, << >>)
  /\ last.response.status = 200
  /\ last.response
       = SessionResponse(minted.token, minted.expiresAt, minted.scope)
  /\ minted.scope = Str(Lecture)

\* the last request declares a JSON body that parses but violates the schema
InvalidBody == DeclaresJson /\ ViolatesSchema(JSONParse(last.request.body))

----------------------------------------------------------------------------
(* The signing key as a state machine: createSessionToken and               *)
(* verifySessionToken called with and without the option secret, the       *)
(* process restarted under another configuration in between                *)

\* process.env: each of REALTIME_SESSION_SECRET and APP_PASSWORD not set, set
\* to the empty string, or set
KeyEnvs ==
  { [REALTIME_SESSION_SECRET |-> secret, APP_PASSWORD |-> password] :
      secret \in { Undefined, Str(<< >>), Str(<< "k" >>) },
      password \in { Undefined, Str(<< >>), Str(Password), Str(<< "k" >>) } }

\* the option secret: not passed, or one of the secrets
SecretOptions == { Undefined } \cup { Str(secret) : secret \in Secrets }

KeyInit ==
  /\ processEnv \in KeyEnvs
  /\ made = NotMade
  /\ checked = NotChecked
  /\ firstExpired = -1
  /\ clock = 0
  /\ minted = NotMinted
  /\ last = NotAsked
  /\ gate = NotCalled
  /\ issued = { }

\* createSessionToken({ scope: "practice", ttlSeconds: 1, now, secret? }),
\* once, recorded with the option passed and process.env at the call
KeyCreate ==
  /\ made = NotMade
  /\ \E explicit \in SecretOptions :
       made' = Made(Str(Practice), Whole(1), 0, SecretOrDefault(explicit, processEnv),
                    << "u", "1" >>)
                 @@ [explicit |-> explicit, env |-> processEnv]
  /\ UNCHANGED << checked, firstExpired, gate, issued >>
  /\ UNCHANGED handlerVars

\* the process is started again under another configuration, once, before
\* the token is verified
Restart ==
  /\ Returned(made.result)
  /\ processEnv = made.env
  /\ checked = NotChecked
  /\ processEnv' \in KeyEnvs \ { processEnv }
  /\ UNCHANGED << clock, minted, last, gate, issued >>
  /\ UNCHANGED engineVars

\* verifySessionToken(token, { now, secret? }) on the token of made, once,
\* recorded with the option passed and process.env at the call
KeyVerify ==
  /\ Returned(made.result)
  /\ checked = NotChecked
  /\ \E explicit \in SecretOptions :
       checked' = Checked(Call(IF explicit = Undefined THEN "default" ELSE "explicit",
                               made.result.token, made.now, NoScope,
                               SecretOrDefault(explicit, processEnv))
                            @@ [explicit |-> explicit, env |-> processEnv])
  /\ UNCHANGED << made, firstExpired, gate, issued >>
  /\ UNCHANGED handlerVars

KeyNext == KeyCreate \/ Restart \/ KeyVerify

KeySpec == KeyInit /\ [][KeyNext]_vars

----------------------------------------------------------------------------
(* Properties of the signing key (KeySpec) *)

\* the key the chain resolves to under env: the signing secret when one is
\* set, else the app password when one is set, else the development fallback
ChainKey(env) ==
  IF env.REALTIME_SESSION_SECRET # Undefined THEN env.REALTIME_SESSION_SECRET.s
  ELSE IF env.APP_PASSWORD # Undefined THEN env.APP_PASSWORD.s
  ELSE << "d", "e", "v", "e", "l", "o", "p", "m", "e", "n", "t", "-",
          "s", "e", "s", "s", "i", "o", "n", "-", "s", "e", "c", "r", "e", "t" >>

\* the key of a call: the option secret when one is passed, else the chain's
KeyOf(call) == IF call.explicit # Undefined THEN call.explicit.s ELSE ChainKey(call.env)

\* the signature segment of token is the HMAC of its first two segments under key
SignedUnder(token, key) ==
  LET seg == split(token, ".") IN
  seg[3] = Base64Encode(HmacSha256(key, seg[1] \o << "." >> \o seg[2]), TRUE)

\* C20: called without the option secret, createSessionToken signs and
\* verifySessionToken verifies under the signing secret of the environment
\* when one is set, else under the app password when one is set, else under
\* the development fallback; an option secret overrides the chain; and a token
\* created under one key fails with TokenInvalidError when verified under a
\* configuration that resolves to another key, and verifies under the same key.
C20_SecretChain ==
  /\ Returned(made.result) => SignedUnder(made.result.token, KeyOf(made))
  /\ checked.how # "none"
       => IF KeyOf(checked) = KeyOf(made)
          THEN checked.result.status = "ok"
          ELSE /\ checked.result.status = "TokenInvalidError"
               /\ checked.result.message = "Token signature mismatch"

\* created under the signing secret "k" of the environment, verified after a
\* restart with only the app password set: rejected
C20_Witness ==
  /\ Returned(made.result)
  /\ checked.how = "default"
  /\ made.explicit = Undefined
  /\ made.env = [REALTIME_SESSION_SECRET |-> Str(<< "k" >>), APP_PASSWORD |-> Str(Password)]
  /\ SignedUnder(made.result.token, << "k" >>)
  /\ checked.env = [REALTIME_SESSION_SECRET |-> Undefined, APP_PASSWORD |-> Str(Password)]
  /\ checked.result.status = "TokenInvalidError"

----------------------------------------------------------------------------
(* Issuing and presenting tokens: createSessionToken called under a fixed   *)
(* secret, directly and by the handler, and callers who have seen the       *)
(* returned tokens presenting strings built from them                       *)

\* the signing secret of the deployment; no caller knows it
FixedSecret == << "s", "2" >>

IssueEnv == [REALTIME_SESSION_SECRET |-> Str(FixedSecret), APP_PASSWORD |-> Str(Password)]

\* the number of tokens issued in one behaviour
MaxIssued == 2

\* token without its character at pos; token with c put in after position pos
Deleted(token, pos) == SubSeq(token, 1, pos - 1) \o SubSeq(token, pos + 1, Len(token))
Inserted(token, pos, c) == SubSeq(token, 1, pos) \o << c >> \o SubSeq(token, pos + 1, Len(token))

HeaderPositions(token) == 1..Len(split(token, ".")[1])

\* the header and payload segments of one token with the signature segment of
\* another
Mixed(tokens) ==
  { split(p[1], ".")[1] \o << "." >> \o split(p[1], ".")[2] \o << "." >> \o split(p[2], ".")[3] :
      p \in { q \in tokens \X tokens : q[1] # q[2] } }

\* tokens a caller signs with what it knows: the development fallback, the app
\* password, the empty key
Forged ==
  { signPayload([NoMembers EXCEPT !.jti = Str(<< "u", "9" >>), !.scope = Str(Practice),
                                  !.iat = Whole(0), !.exp = Whole(900)], key) :
      key \in { getSigningSecret(NoEnv), Password, << >> } }

\* strings built from one returned token: a character dropped, a character put
\* in, a character of the header segment replaced, segments dropped or added
Derived(t) ==
  { Deleted(t, pos) : pos \in 1..Len(t) }
  \cup { Inserted(t, pos, "A") : pos \in 0..Len(t) }
  \cup { Inserted(t, pos, c) : pos \in { 0, Len(t) }, c \in { " ", "=", "." } }
  \cup ({ Changed(t, pos, c) : pos \in HeaderPositions(t), c \in { "A", "B" } } \ { t })
  \cup Malformed(t)

\* what callers present to verifySessionToken: the returned tokens, strings
\* built from them, and forged tokens
Presented(tokens) ==
  tokens \cup UNION { Derived(t) : t \in tokens } \cup Mixed(tokens) \cup Forged

\* the requests of the handler: mints with the app password, and Bearer
\* requests with returned, mixed and forged tokens
MintRequests ==
  { NextRequest(GoodBasic, Null, << >>), NextRequest(GoodBasic, Json, LectureBody) }
BearerRequests(tokens) ==
  { NextRequest(Str(BearerHeader(token)), Null, << >>) :
      token \in tokens \cup Mixed(tokens) \cup Forged }
  \cup { NextRequest(Str(ShoutedHeader(token)), Null, << >>) : token \in tokens }
IssueRequests ==
  (IF Cardinality(issued) < MaxIssued THEN MintRequests ELSE { }) \cup BearerRequests(issued)

IssueInit ==
  /\ processEnv = IssueEnv
  /\ issued = { }
  /\ clock = 0
  /\ minted = NotMinted
  /\ last = NotAsked
  /\ made = NotMade
  /\ checked = NotChecked
  /\ firstExpired = -1
  /\ gate = NotCalled

\* createSessionToken({ scope, ttlSeconds: 1, now, secret }) returns a token
Issue ==
  /\ checked = NotChecked
  /\ last = NotAsked
  /\ Cardinality(issued) < MaxIssued
  /\ \E scope \in { Str(Practice), Str(Lecture) } :
       issued' = issued \cup { createSessionToken(scope, Whole(1), clock, FixedSecret,
                                                  << "u", "1" >>).token }
  /\ UNCHANGED << made, checked, firstExpired, processEnv, clock, minted, last, gate >>

\* the state after POST ran on request: a token createSessionToken returned
\* inside the handler is issued too
Served(request, ran) ==
  /\ last' = [request |-> request, now |-> clock, response |-> ran.response,
              verified |-> ran.verified, created |-> ran.created]
  /\ issued' = IF Returned(ran.created) THEN issued \cup { ran.created.token } ELSE issued

\* a request arrives and POST runs on it
Serve ==
  /\ checked = NotChecked
  /\ last = NotAsked
  /\ \E request \in IssueRequests :
       Served(request, POST(request, processEnv, clock, << "u", "2" >>))
  /\ UNCHANGED << made, checked, firstExpired, processEnv, clock, minted, gate >>

\* verifySessionToken(token, { now, secret }) on a string a caller presents
Present ==
  /\ checked = NotChecked
  /\ last = NotAsked
  /\ \E token \in Presented(issued) :
       checked' = Checked(Call("presented", token, clock, NoScope, FixedSecret))
  /\ UNCHANGED << made, firstExpired, processEnv, clock, minted, last, gate, issued >>

\* the call has returned, the response is sent: nothing of it is kept
Settle ==
  /\ checked # NotChecked \/ last # NotAsked
  /\ checked' = NotChecked
  /\ last' = NotAsked
  /\ UNCHANGED << made, firstExpired, processEnv, clock, minted, gate, issued >>

IssueNext == Issue \/ Serve \/ Present \/ Settle

IssueSpec == IssueInit /\ [][IssueNext]_vars

----------------------------------------------------------------------------
(* Properties of issued tokens (IssueSpec) *)

\* C21: under the fixed secret, every string verifySessionToken accepts,
\* called directly or on the Bearer branch of the handler, is one of the
\* token strings createSessionToken has returned under that secret; and the
\* token of every 200 response is one of them.
C21_AcceptedWereIssued ==
  /\ (checked.how = "presented" /\ checked.result.status = "ok") => checked.token \in issued
  /\ (OnBearerBranch /\ Returned(last.verified)) => BearerToken \in issued
  /\ (last # NotAsked /\ last.response.status = 200) => last.response.body.token \in issued

C21_Witness ==
  /\ Cardinality(issued) = MaxIssued
  /\ checked.how = "presented"
  /\ checked.result.status = "ok"
  /\ checked.token \in issued

----------------------------------------------------------------------------
(* Properties of the handler with nothing configured (Spec) *)

\* C22 as stated: with neither an app password nor a signing secret set, no
\* request, Basic or Bearer, of a caller who knows only the constants of the
\* program gets a 200 response.
C22_NoSuccessUnconfigured ==
  (processEnv = NoEnv /\ last # NotAsked) => last.response.status # 200

\* C22, amended: with neither set, every request outside the Bearer branch
\* gets 401 "Unauthorized" and createSessionToken is not called; a 200
\* response is given on the Bearer branch only, and only to a token signed
\* under the development fallback key.
C22_BasicFailsClosed ==
  (processEnv = NoEnv /\ last # NotAsked)
    => /\ ~OnBearerBranch
            => /\ last.response = unauthorizedResponse
               /\ last.created = NoCall
       /\ last.response.status = 200
            => /\ OnBearerBranch
               /\ SignedUnder(BearerToken, ChainKey(NoEnv))

C22_Witness ==
  /\ processEnv = NoEnv
  /\ last.request = NextRequest(GoodBasic, Json, LectureBody)
  /\ last.response = unauthorizedResponse
  /\ last.created = NoCall

----------------------------------------------------------------------------
(* Properties of the lifetime of minted tokens (Spec) *)

\* the last request is a mint that succeeded and whose JSON body gives a
\* number as ttlSeconds
MintWithTtl ==
  /\ ValidBasic
  /\ last.response.status = 200
  /\ DeclaresJson
  /\ JSONParse(last.request.body).ok
  /\ JSONParse(last.request.body).kind = "object"
  /\ JSONParse(last.request.body).m.ttlSeconds.t = "number"

\* ttlSeconds of the last request, in seconds
MintTtl == JSONParse(last.request.body).m.ttlSeconds.n \div Scale

\* C23: a mint through the handler with a ttlSeconds in 1..600 (301..600 is
\* accepted) answers with expiresAt = floor(now in seconds) + min(ttlSeconds,
\* 300); no minted token expires later than 300 seconds after its mint; and a
\* Bearer request that carries the minted token 300 seconds or more after the
\* mint gets 401 for an expired token, never 200.
C23_MintedExpireWithin300 ==
  /\ MintWithTtl
       => /\ PositiveInteger(JSONParse(last.request.body).m.ttlSeconds)
          /\ MintTtl \in 1..600
          /\ ExpiryOf(last.response.body)
               = ((last.now \div 1000) + (IF MintTtl <= 300 THEN MintTtl ELSE 300)) * 1000
  /\ minted # NotMinted => ExpiryOf(minted) <= minted.at + 300 * 1000
  /\ (RenewsMinted /\ last.now >= minted.at + 300 * 1000)
       => /\ last.response.status = 401
          /\ last.verified.status = "TokenExpiredError"
          /\ last.response = ErrorResponse(401, last.verified.message)

\* a token minted with the longest lifetime at 999 ms, presented 300 seconds
\* later
C23_Witness ==
  /\ RenewsMinted
  /\ minted.at = 999
  /\ ExpiryOf(minted) = 300 * 1000
  /\ last.now = minted.at + 300 * 1000
  /\ last.response.status = 401

====
